---- MODULE Spec2Model ----
(***************************************************************************)
(* A model of skilift (src/skilift.py): the GTFS feed indices, the         *)
(* timetable lookups, find_stop_events and the edge providers.             *)
(*                                                                         *)
(* Conventions.                                                            *)
(*  - A pd.Timestamp is an integer number of seconds; its date is          *)
(*    ts \div 86400 and its seconds since midnight are ts % 86400.         *)
(*  - A Python dict is a function whose DOMAIN is the dict's key set; a    *)
(*    lookup d[k] with k outside the DOMAIN raises KeyError.               *)
(*  - Rows and columns are 0-based as in the source; TLA+ sequences are    *)
(*    1-based, so a[i] of the source is a[i + 1] here.                     *)
(*  - An optional result (None | value) is <<>> | <<value...>>.            *)
(***************************************************************************)
EXTENDS Integers, Sequences, FiniteSets, TLC

VARIABLES
    trips,            \* stop_times merged with trips: one record per trip
    service_dates,    \* GTFSFeed._service_dates : date -> set of service ids
    stop_patterns,    \* GTFSFeed.stop_patterns : pattern id -> stop tuple
    stop_pattern_ids, \* GTFSFeed.stop_pattern_ids : stop id -> set of pattern ids
    timetables,       \* GTFSFeed._timetables : <<pattern id, service id>> -> Timetable
    day_end,          \* GTFSFeed._day_end
    nodes,            \* StreetData.nodes : node id -> Node(lon, lat)
    ways,             \* StreetData.ways : way id -> Way(nds, tags)
    node_refs,        \* StreetData.node_refs : node id -> set of NodeRef
    way_vertex_nodes, \* StreetData.way_vertex_nodes : way id -> indices
    _file,            \* ElevationRaster._file : "None", or the dataset it
                      \* refers to, which is "open" or "closed"
    _elevdata,        \* ElevationRaster._elevdata : "None" or "band1"
    scope,            \* where the with statement over the raster is:
                      \* "unopened", "open" (in its body) or "closed"
    stop_to_midseg_ref,         \* TransitStreetConnectionEdgeProvider's
    midseg_ref_to_stops,        \* four indices: stop id -> MidSegmentRef,
    segment_ref_to_midseg_refs, \* MidSegmentRef -> stop ids, SegmentRef ->
    node_to_midseg_refs,        \* MidSegmentRefs, node id -> MidSegmentRefs
    result            \* the last call: its arguments and what it returned
                      \* (or that it raised); op = "none" between traversals

vars == <<trips, service_dates, stop_patterns, stop_pattern_ids, timetables,
          day_end, nodes, ways, node_refs, way_vertex_nodes, _file,
          _elevdata, scope, stop_to_midseg_ref, midseg_ref_to_stops,
          segment_ref_to_midseg_refs, node_to_midseg_refs, result>>

street == <<nodes, ways, node_refs, way_vertex_nodes>>

raster == <<_file, _elevdata, scope>>

connector == <<stop_to_midseg_ref, midseg_ref_to_stops,
               segment_ref_to_midseg_refs, node_to_midseg_refs>>

feed == <<trips, service_dates, stop_patterns, stop_pattern_ids, timetables,
          day_end>>

-----------------------------------------------------------------------------
(* Program constants *)

ALIGHTING_WEIGHT == 60

\* WALKING_SPEED = 1.2 meters per second, in tenths
WALKING_SPEED_TENTHS == 12

WALKING_RELUCTANCE == 1

secs_in_day == 86400

-----------------------------------------------------------------------------
(* Bounds of the model *)

\* number of trips in a feed (specification Spec)
MaxTrips == 2

\* number of ways of a street network and number of edges the driver
\* follows in one traversal of it (specification SpecStreet)
MaxWays == 2

MaxHops == 1

\* number of rows of the timetable and latest first arrival of a row
\* (specification SpecTT)
MaxRows == 2

MaxStart == 1

-----------------------------------------------------------------------------
(* Small helpers *)

None == <<>>

Range(s) == {s[i] : i \in 1..Len(s)}

Max(S) == CHOOSE x \in S : \A y \in S : y <= x

\* iteration order of a set of at most four non-negative integers: CPython
\* keeps such a set in a table of 8 slots, an integer x in slot x % 8 (its
\* hash is x), and iterates the slots in order; the sets of the model have
\* no two members in one slot
RECURSIVE SetIter(_)
SetIter(S) ==
    IF S = {} THEN <<>>
    ELSE LET m == CHOOSE x \in S : \A y \in S : x % 8 <= y % 8
         IN <<m>> \o SetIter(S \ {m})

RECURSIVE Flatten(_)
Flatten(ss) == IF ss = <<>> THEN <<>> ELSE Head(ss) \o Flatten(Tail(ss))

-----------------------------------------------------------------------------
(* Timestamps *)

\* pd.Timestamp(date) + pd.Timedelta(secs, unit="s")
Timestamp(date, secs) == date * secs_in_day + secs

\* query_datetime.date()
DateOf(ts) == ts \div secs_in_day

seconds_since_midnight(ts) == ts % secs_in_day

-----------------------------------------------------------------------------
(* Vertices *)

\* np tells whether stop_id is a numpy integer scalar (as get_stop_by_name
\* returns for an integer-keyed feed) or a native Python value (a str, or
\* the int that a stop pattern tuple holds)
AtStopVertex(stop_id, np, time) ==
    [kind |-> "AtStop", stop_id |-> stop_id, np |-> np, time |-> time]

DepartureVertex(pattern_id, service_id, row, col, datetime) ==
    [kind |-> "Departure", pattern_id |-> pattern_id,
     service_id |-> service_id, row |-> row, col |-> col,
     datetime |-> datetime]

ArrivalVertex(pattern_id, service_id, row, col, datetime) ==
    [kind |-> "Arrival", pattern_id |-> pattern_id,
     service_id |-> service_id, row |-> row, col |-> col,
     datetime |-> datetime]

Edge(v, weight) == [vertex |-> v, weight |-> weight]

-----------------------------------------------------------------------------
(* Timetable lookups *)

\* np.searchsorted(a, key, side="left"): numpy's binary search, which on an
\* unsorted array still terminates and returns whatever the probes lead to
RECURSIVE BinSearchLeft(_, _, _, _)
BinSearchLeft(a, key, lo, hi) ==
    IF lo < hi
    THEN LET mid == lo + ((hi - lo) \div 2)
         IN IF a[mid + 1] < key
            THEN BinSearchLeft(a, key, mid + 1, hi)
            ELSE BinSearchLeft(a, key, lo, mid)
    ELSE lo

\* np.searchsorted(a, key, side="right")
RECURSIVE BinSearchRight(_, _, _, _)
BinSearchRight(a, key, lo, hi) ==
    IF lo < hi
    THEN LET mid == lo + ((hi - lo) \div 2)
         IN IF a[mid + 1] <= key
            THEN BinSearchRight(a, key, mid + 1, hi)
            ELSE BinSearchRight(a, key, lo, mid)
    ELSE lo

\* side="right" where the lookup means side="left"
searchsorted_left_as_right(a, key) == BinSearchRight(a, key, 0, Len(a))

searchsorted_left(a, key) == BinSearchLeft(a, key, 0, Len(a))

\* side="left" where the lookup means side="right"
searchsorted_right_as_left(a, key) == BinSearchLeft(a, key, 0, Len(a))

searchsorted_right(a, key) == BinSearchRight(a, key, 0, Len(a))

\* departure_times[:, stop_index]
Column(times, stop_index) ==
    [r \in 1..Len(times) |-> times[r][stop_index + 1]]

\* the lookup without its check for the terminal column
_lookup_departure_any_column(tt, stop_index, query_time) ==
    LET trip_index ==
            searchsorted_left(Column(tt.departure_times, stop_index),
                              query_time)
    IN IF trip_index = Len(tt.departure_times)
       THEN None
       ELSE <<trip_index, tt.departure_times[trip_index + 1][stop_index + 1]>>

_lookup_departure(tt, stop_index, query_time) ==
    IF stop_index = Len(tt.stop_ids) - 1
    THEN None
    ELSE LET trip_index ==
                 searchsorted_left(Column(tt.departure_times, stop_index),
                                   query_time)
         IN IF trip_index = Len(tt.departure_times)
            THEN None
            ELSE <<trip_index, tt.departure_times[trip_index + 1][stop_index + 1]>>

\* the lookup searching the arrival column instead of the departure column
_lookup_arrival_by_arrival(tt, stop_index, query_time) ==
    IF stop_index = 0
    THEN None
    ELSE LET trip_index ==
                 searchsorted_right(Column(tt.arrival_times, stop_index),
                                    query_time) - 1
         IN IF trip_index = -1
            THEN None
            ELSE <<trip_index, tt.arrival_times[trip_index + 1][stop_index + 1]>>

_lookup_arrival(tt, stop_index, query_time) ==
    IF stop_index = 0
    THEN None
    ELSE LET trip_index ==
                 searchsorted_right(Column(tt.departure_times, stop_index),
                                    query_time) - 1
         IN IF trip_index = -1
            THEN None
            ELSE <<trip_index, tt.arrival_times[trip_index + 1][stop_index + 1]>>

\* np.flatnonzero(self.stop_ids == stop_id), where self.stop_ids is the
\* pattern's Python tuple: the comparison is elementwise only when stop_id
\* is a numpy scalar; a tuple compared with a native str or int is False,
\* and flatnonzero(False) is empty
RECURSIVE MatchingColumns(_, _, _)
MatchingColumns(stop_ids, stop_id, n) ==
    IF n = 0 THEN <<>>
    ELSE MatchingColumns(stop_ids, stop_id, n - 1)
         \o (IF stop_ids[n] = stop_id THEN <<n - 1>> ELSE <<>>)

stop_indices(stop_ids, stop_id, np) ==
    IF np THEN MatchingColumns(stop_ids, stop_id, Len(stop_ids)) ELSE <<>>

TimetableEvent(row, col, time) == [row |-> row, col |-> col, time |-> time]

RECURSIVE EventsOfColumns(_, _, _, _)
EventsOfColumns(tt, cols, query_time, find_departure) ==
    IF cols = <<>> THEN <<>>
    ELSE LET stop_index == Head(cols)
             event == IF find_departure
                      THEN _lookup_departure(tt, stop_index, query_time)
                      ELSE _lookup_arrival(tt, stop_index, query_time)
             rest == EventsOfColumns(tt, Tail(cols), query_time, find_departure)
         IN IF event # None
            THEN <<TimetableEvent(event[1], stop_index, event[2])>> \o rest
            ELSE rest

find_timetable_events(tt, stop_id, np, query_time, find_departure) ==
    EventsOfColumns(tt, stop_indices(tt.stop_ids, stop_id, np), query_time,
                    find_departure)

-----------------------------------------------------------------------------
(* Building the feed indices: GTFSFeed.__init__ *)

\* one entry per trip, whether or not its tuple was seen before
DistinctPatterns_PerTrip(st, n) == [i \in 1..n |-> st[i].stop_id]

\* the distinct stop tuples of the first n trips, in order of first
\* occurrence (trip_stop_patterns is keyed by ascending trip_id, and a
\* dict keeps insertion order)
RECURSIVE DistinctPatterns(_, _)
DistinctPatterns(st, n) ==
    IF n = 0 THEN <<>>
    ELSE LET prev == DistinctPatterns(st, n - 1)
         IN IF st[n].stop_id \in Range(prev)
            THEN prev
            ELSE Append(prev, st[n].stop_id)

\* self.stop_patterns = dict(zip(range(len(...)), stop_pattern_trips.keys()))
StopPatterns(st) ==
    LET ps == DistinctPatterns(st, Len(st))
    IN [p \in 0..(Len(ps) - 1) |-> ps[p + 1]]

\* self.stop_pattern_ids: only stops that some pattern visits get a key
StopPatternIds(sp) ==
    [s \in UNION {Range(sp[p]) : p \in DOMAIN sp} |->
        {p \in DOMAIN sp : s \in Range(sp[p])}]

\* the stop_pattern_id merged onto each stop_times row of trip i
PatternIdOf(st, sp, i) == CHOOSE p \in DOMAIN sp : sp[p] = st[i].stop_id

\* the groups of stop_times.groupby(["stop_pattern_id", "service_id"])
TimetableKeys(st, sp) ==
    {<<PatternIdOf(st, sp, i), st[i].service_id>> : i \in 1..Len(st)}

GroupTrips(st, sp, key) ==
    {i \in 1..Len(st) :
        PatternIdOf(st, sp, i) = key[1] /\ st[i].service_id = key[2]}

\* the sort key of grouper_func: x.map(lambda x: x[0]) on "arrival_time"
SortKey(row) == row.arrival_time[1]

\* .sort_values("arrival_time", key=...): every arrangement of the group's
\* rows that is ascending in the key (the default sort kind is not stable,
\* so rows with equal keys may come out in either order)
SortedOrders(st, G) ==
    {o \in [1..Cardinality(G) -> G] :
        /\ \A i, j \in 1..Cardinality(G) : i # j => o[i] # o[j]
        /\ \A i, j \in 1..Cardinality(G) :
              i < j => SortKey(st[o[i]]) <= SortKey(st[o[j]])}

\* Timetable.__init__: stores what it is given
Timetable(trip_ids, stop_ids, arrival_times, departure_times) ==
    [trip_ids |-> trip_ids, stop_ids |-> stop_ids,
     arrival_times |-> arrival_times, departure_times |-> departure_times]

\* the Timetable built for one group, given the order its rows came out in
GroupTimetable(st, sp, key, o) ==
    Timetable([r \in 1..Len(o) |-> st[o[r]].trip_id],
              sp[key[1]],
              [r \in 1..Len(o) |-> st[o[r]].arrival_time],
              [r \in 1..Len(o) |-> st[o[r]].departure_time])

\* _get_timetables: the dicts it can return for a feed
GetTimetables(st, sp) ==
    LET keys == TimetableKeys(st, sp)
        choices == [k \in keys |->
                       {GroupTimetable(st, sp, k, o) :
                           o \in SortedOrders(st, GroupTrips(st, sp, k))}]
    IN {f \in [keys -> UNION {choices[k] : k \in keys}] :
           \A k \in keys : f[k] \in choices[k]}

\* the largest arrival time where the largest departure time is meant
DayEnd_OfArrivals(st) ==
    Max(UNION {Range(st[i].arrival_time) : i \in 1..Len(st)})

\* self._stop_times["departure_time"].max()
DayEnd(st) ==
    Max(UNION {Range(st[i].departure_time) : i \in 1..Len(st)})

-----------------------------------------------------------------------------
(* GTFSFeed.find_stop_events *)

TransitEvent(pattern_id, service_id, row, col, datetime) ==
    [pattern_id |-> pattern_id, service_id |-> service_id,
     row |-> row, col |-> col, datetime |-> datetime]

\* <= where the shift is decided by <
RolloverApplies_Inclusive(query_time) == query_time + secs_in_day <= day_end

\* if query_time + secs_in_day < self._day_end
RolloverApplies(query_time) == query_time + secs_in_day < day_end

\* the events of one (stop_pattern_id, service_id) pair
KeyEvents(key, stop_id, np, query_date, query_time, find_departures) ==
    IF key \notin DOMAIN timetables
    THEN <<>>
    ELSE LET tes == find_timetable_events(timetables[key], stop_id, np,
                                          query_time, find_departures)
         IN [i \in 1..Len(tes) |->
                TransitEvent(key[1], key[2], tes[i].row, tes[i].col,
                             Timestamp(query_date, tes[i].time))]

\* a lookup that, when it shifts the query to the previous service date,
\* goes on to search the date of the query as well
find_stop_events_both_dates(stop_id, np, query_datetime, find_departures) ==
    LET time0 == seconds_since_midnight(query_datetime)
        date0 == DateOf(query_datetime)
        shift == RolloverApplies(time0)
        query_time == IF shift THEN time0 + secs_in_day ELSE time0
        query_date == IF shift THEN date0 - 1 ELSE date0
        local == [query_date |-> query_date, query_time |-> query_time]
        found(d, t) ==
            IF d \notin DOMAIN service_dates THEN <<>>
            ELSE LET ps == SetIter(stop_pattern_ids[stop_id])
                     ss == SetIter(service_dates[d])
                 IN Flatten([i \in 1..Len(ps) |->
                        Flatten([j \in 1..Len(ss) |->
                            KeyEvents(<<ps[i], ss[j]>>, stop_id, np, d, t,
                                      find_departures)])])
    IN  IF stop_id \notin DOMAIN stop_pattern_ids
        THEN [raised |-> TRUE, events |-> <<>>] @@ local
        ELSE IF /\ stop_pattern_ids[stop_id] # {}
                /\ query_date \notin DOMAIN service_dates
        THEN [raised |-> TRUE, events |-> <<>>] @@ local
        ELSE [raised |-> FALSE,
              events |-> found(query_date, query_time)
                         \o (IF shift THEN found(date0, time0) ELSE <<>>)]
             @@ local

find_stop_events(stop_id, np, query_datetime, find_departures) ==
    LET time0 == seconds_since_midnight(query_datetime)
        date0 == DateOf(query_datetime)
        shift == RolloverApplies(time0)
        query_time == IF shift THEN time0 + secs_in_day ELSE time0
        query_date == IF shift THEN date0 - 1 ELSE date0
        local == [query_date |-> query_date, query_time |-> query_time]
    IN  IF stop_id \notin DOMAIN stop_pattern_ids
        THEN [raised |-> TRUE, events |-> <<>>] @@ local
        ELSE IF /\ stop_pattern_ids[stop_id] # {}
                /\ query_date \notin DOMAIN service_dates
        THEN [raised |-> TRUE, events |-> <<>>] @@ local
        ELSE LET ps == SetIter(stop_pattern_ids[stop_id])
                 ss == SetIter(service_dates[query_date])
             IN [raised |-> FALSE,
                 events |->
                    Flatten([i \in 1..Len(ps) |->
                        Flatten([j \in 1..Len(ss) |->
                            KeyEvents(<<ps[i], ss[j]>>, stop_id, np,
                                      query_date, query_time,
                                      find_departures)])])] @@ local

-----------------------------------------------------------------------------
(* TransitEdgeProvider *)

Raised == [raised |-> TRUE, edges |-> <<>>]

Returned(edges) == [raised |-> FALSE, edges |-> edges]

\* float((event.datetime - adj_vertex.datetime).seconds): the seconds
\* component of the Timedelta between the event and the vertex built from it
AtStopEdgeWeight(event, adj_vertex) ==
    (event.datetime - adj_vertex.datetime) % secs_in_day

_at_stop_vertex_outgoing(v) ==
    LET r == find_stop_events(v.stop_id, v.np, v.time, TRUE)
    IN IF r.raised
       THEN Raised
       ELSE Returned([i \in 1..Len(r.events) |->
                LET event == r.events[i]
                    adj_vertex == DepartureVertex(event.pattern_id,
                                                  event.service_id, event.row,
                                                  event.col, event.datetime)
                IN Edge(adj_vertex, AtStopEdgeWeight(event, adj_vertex))])

\* the hop measured to the departure from the next stop instead of the
\* arrival at it
_departure_vertex_outgoing_to_next_departure(v) ==
    LET timetable == timetables[<<v.pattern_id, v.service_id>>]
    IN IF v.col + 1 >= Len(timetable.stop_ids)
       THEN Raised
       ELSE LET departure_time == timetable.departure_times[v.row + 1][v.col + 1]
                next_time == timetable.departure_times[v.row + 1][v.col + 2]
                segment_duration == next_time - departure_time
                adj_vertex == ArrivalVertex(v.pattern_id, v.service_id, v.row,
                                            v.col + 1,
                                            v.datetime + segment_duration)
            IN Returned(<<Edge(adj_vertex, segment_duration)>>)

\* arrival_times[vertex.row, vertex.col + 1] is an IndexError when
\* vertex.col is the last column
_departure_vertex_outgoing(v) ==
    LET timetable == timetables[<<v.pattern_id, v.service_id>>]
    IN IF v.col + 1 >= Len(timetable.stop_ids)
       THEN Raised
       ELSE LET departure_time == timetable.departure_times[v.row + 1][v.col + 1]
                next_arrival_time == timetable.arrival_times[v.row + 1][v.col + 2]
                segment_duration == next_arrival_time - departure_time
                adj_vertex == ArrivalVertex(v.pattern_id, v.service_id, v.row,
                                            v.col + 1,
                                            v.datetime + segment_duration)
            IN Returned(<<Edge(adj_vertex, segment_duration)>>)

\* the alighting edge appended before the waiting edge
_arrival_vertex_outgoing_alight_first(v) ==
    LET timetable == timetables[<<v.pattern_id, v.service_id>>]
        arrival_time == timetable.arrival_times[v.row + 1][v.col + 1]
        departure_time == timetable.departure_times[v.row + 1][v.col + 1]
        wait_duration == departure_time - arrival_time
        departure_vertex == DepartureVertex(v.pattern_id, v.service_id, v.row,
                                            v.col, v.datetime + wait_duration)
        stop_id == timetable.stop_ids[v.col + 1]
        at_stop_vertex == AtStopVertex(stop_id, FALSE, v.datetime)
    IN Returned(<<Edge(at_stop_vertex, ALIGHTING_WEIGHT),
                  Edge(departure_vertex, wait_duration)>>)

\* the Departure vertex stamped with the time of arrival
_arrival_vertex_outgoing_without_wait(v) ==
    LET timetable == timetables[<<v.pattern_id, v.service_id>>]
        arrival_time == timetable.arrival_times[v.row + 1][v.col + 1]
        departure_time == timetable.departure_times[v.row + 1][v.col + 1]
        wait_duration == departure_time - arrival_time
        departure_vertex == DepartureVertex(v.pattern_id, v.service_id, v.row,
                                            v.col, v.datetime)
        stop_id == timetable.stop_ids[v.col + 1]
        at_stop_vertex == AtStopVertex(stop_id, FALSE, v.datetime)
    IN Returned(<<Edge(departure_vertex, wait_duration),
                  Edge(at_stop_vertex, ALIGHTING_WEIGHT)>>)

_arrival_vertex_outgoing(v) ==
    LET timetable == timetables[<<v.pattern_id, v.service_id>>]
        arrival_time == timetable.arrival_times[v.row + 1][v.col + 1]
        departure_time == timetable.departure_times[v.row + 1][v.col + 1]
        wait_duration == departure_time - arrival_time
        departure_vertex == DepartureVertex(v.pattern_id, v.service_id, v.row,
                                            v.col, v.datetime + wait_duration)
        stop_id == timetable.stop_ids[v.col + 1]
        at_stop_vertex == AtStopVertex(stop_id, FALSE, v.datetime)
    IN Returned(<<Edge(departure_vertex, wait_duration),
                  Edge(at_stop_vertex, ALIGHTING_WEIGHT)>>)

TransitOutgoing(v) ==
    IF v.kind = "AtStop" THEN _at_stop_vertex_outgoing(v)
    ELSE IF v.kind = "Departure" THEN _departure_vertex_outgoing(v)
    ELSE IF v.kind = "Arrival" THEN _arrival_vertex_outgoing(v)
    ELSE Returned(<<>>)

-----------------------------------------------------------------------------
(* Feeds *)

\* integer service ids, as pandas reads a numeric service_id column
Services == {1, 8}

\* stops.txt; no pattern below visits "C"
Stops == {"A", "B", "C"}

Patterns == {<<"A", "B">>, <<"A", "B", "A">>}

\* a trip that first arrives at start, waits dwell at every stop and takes
\* hop between stops
TripRow(trip_id, service_id, pattern, start, dwell, hop) ==
    [trip_id |-> trip_id, service_id |-> service_id, stop_id |-> pattern,
     arrival_time |->
        [c \in 1..Len(pattern) |-> start + (c - 1) * (dwell + hop)],
     departure_time |->
        [c \in 1..Len(pattern) |-> start + (c - 1) * (dwell + hop) + dwell]]

\* a trip at 00:00 and two trips at 25:30 of the night after, one of which
\* waits half an hour at every stop
TripShapes ==
    {[start |-> 0, dwell |-> 0, hop |-> 1800],
     [start |-> 91800, dwell |-> 0, hop |-> 1800],
     [start |-> 91800, dwell |-> 1800, hop |-> 1800]}

TripChoices(trip_id) ==
    {TripRow(trip_id, svc, pat, sh.start, sh.dwell, sh.hop) :
        svc \in Services, pat \in Patterns, sh \in TripShapes}

FeedTrips ==
    UNION {{st \in [1..n -> UNION {TripChoices(i) : i \in 1..n}] :
               \A i \in 1..n : st[i].trip_id = i} : n \in 1..MaxTrips}

\* the dates of the calendar and of the queries
Dates == {1, 2}

\* expanded calendars: both services every day; service 1 on date 1 only
\* (date 2 has no entry); service 1 on date 1 and service 8 on date 2
Calendars ==
    {[d \in Dates |-> Services],
     [d \in {1} |-> {1}],
     [d \in Dates |-> {IF d = 1 THEN 1 ELSE 8}]}

\* 00:00, 01:00, 01:30 and 02:00
QueryTimes == {0, 3600, 5400, 7200}

QueryDatetimes == {Timestamp(d, t) : d \in Dates, t \in QueryTimes}

Idle == [op |-> "none"]

\* the record of a call of outgoing on vertex v; service_date notes the
\* date that the boarding lookup used: for an AtStop vertex the query_date
\* that find_stop_events settles on, and along a ride the date noted for
\* the vertex the edge came from
OutgoingCall(v, ret) ==
    [op |-> "outgoing", vertex |-> v,
     service_date |->
        IF v.kind = "AtStop"
        THEN find_stop_events(v.stop_id, v.np, v.time, TRUE).query_date
        ELSE result.service_date] @@ ret

\* the state after GTFSFeed.__init__ on the given trips and calendar
Built(st, cal) ==
    /\ trips = st
    /\ service_dates = cal
    /\ stop_patterns = StopPatterns(st)
    /\ stop_pattern_ids = StopPatternIds(stop_patterns)
    /\ timetables \in GetTimetables(st, stop_patterns)
    /\ day_end = DayEnd(st)

\* no street data is loaded
NoStreet ==
    /\ nodes = <<>>
    /\ ways = <<>>
    /\ node_refs = <<>>
    /\ way_vertex_nodes = <<>>

\* ElevationRaster.__init__: no with statement over the raster has begun
NoRaster ==
    /\ _file = "None"
    /\ _elevdata = "None"
    /\ scope = "unopened"

\* no TransitStreetConnectionEdgeProvider is constructed
NoConnector ==
    /\ stop_to_midseg_ref = <<>>
    /\ midseg_ref_to_stops = <<>>
    /\ segment_ref_to_midseg_refs = <<>>
    /\ node_to_midseg_refs = <<>>

Init ==
    /\ \E st \in FeedTrips, cal \in Calendars : Built(st, cal)
    /\ NoStreet
    /\ NoRaster
    /\ NoConnector
    /\ result = Idle

-----------------------------------------------------------------------------
(* The search driver and direct callers *)

\* the driver expands a start vertex AtStop(stop_id, time)
AtStopOutgoing ==
    /\ result = Idle
    /\ \E stop_id \in Stops, np \in BOOLEAN, time \in QueryDatetimes :
          LET v == AtStopVertex(stop_id, np, time)
          IN result' = OutgoingCall(v, TransitOutgoing(v))
    /\ UNCHANGED <<feed, street, raster, connector>>

\* the driver follows an edge the last call returned and expands its target
Follow ==
    /\ result.op = "outgoing"
    /\ ~result.raised
    /\ \E i \in 1..Len(result.edges) :
          LET v == result.edges[i].vertex
          IN result' = OutgoingCall(v, TransitOutgoing(v))
    /\ UNCHANGED <<feed, street, raster, connector>>

\* a direct call of find_stop_events
FindStopEvents ==
    /\ result = Idle
    /\ \E stop_id \in Stops, np \in BOOLEAN, time \in QueryDatetimes,
          find_departures \in BOOLEAN :
          result' = [op |-> "find_stop_events", stop_id |-> stop_id,
                     np |-> np, query_datetime |-> time,
                     find_departures |-> find_departures]
                    @@ find_stop_events(stop_id, np, time, find_departures)
    /\ UNCHANGED <<feed, street, raster, connector>>

\* the caller drops the result; the next traversal starts afresh
Restart ==
    /\ result # Idle
    /\ result' = Idle
    /\ UNCHANGED <<feed, street, raster, connector>>

Next == AtStopOutgoing \/ Follow \/ FindStopEvents \/ Restart

Spec == Init /\ [][Next]_vars

-----------------------------------------------------------------------------
(* Feeds that GTFSFeed.__init__ reads without complaint although their      *)
(* times break the timetable invariants: a trip may leave a stop before it *)
(* arrives there, or arrive at the next stop before it left the last one   *)

UncheckedShapes ==
    {[start |-> 3600, dwell |-> dwell, hop |-> hop] :
        dwell \in {-600, 0, 600}, hop \in {-300, 1800}}

UncheckedTrips ==
    {<<TripRow(1, svc, pat, sh.start, sh.dwell, sh.hop)>> :
        svc \in Services, pat \in Patterns, sh \in UncheckedShapes}

InitUnchecked ==
    /\ \E st \in UncheckedTrips, cal \in Calendars : Built(st, cal)
    /\ NoStreet
    /\ NoRaster
    /\ NoConnector
    /\ result = Idle

SpecUnchecked == InitUnchecked /\ [][Next]_vars

-----------------------------------------------------------------------------
(* Timetables on their own: a feed of one pattern and one service whose     *)
(* rows range over first arrivals, dwells and hops, and direct calls of    *)
(* the two lookups                                                         *)

Dwells == {0, 1, 2}

Hops == {0, 1}

RowChoices(trip_id) ==
    {TripRow(trip_id, 1, <<"A", "B", "A">>, start, dwell, hop) :
        start \in 0..MaxStart, dwell \in Dwells, hop \in Hops}

RowTrips ==
    UNION {{st \in [1..n -> UNION {RowChoices(i) : i \in 1..n}] :
               \A i \in 1..n : st[i].trip_id = i} : n \in 1..MaxRows}

InitTT ==
    /\ \E st \in RowTrips : Built(st, [d \in Dates |-> Services])
    /\ NoStreet
    /\ NoRaster
    /\ NoConnector
    /\ result = Idle

LookupCall(op, key, stop_index, query_time, ret) ==
    [op |-> op, key |-> key, stop_index |-> stop_index,
     query_time |-> query_time, ret |-> ret]

LookupDeparture ==
    /\ result = Idle
    /\ \E key \in DOMAIN timetables, query_time \in 0..(day_end + 1) :
          \E stop_index \in 0..(Len(timetables[key].stop_ids) - 1) :
             result' = LookupCall("_lookup_departure", key, stop_index,
                                  query_time,
                                  _lookup_departure(timetables[key],
                                                    stop_index, query_time))
    /\ UNCHANGED <<feed, street, raster, connector>>

LookupArrival ==
    /\ result = Idle
    /\ \E key \in DOMAIN timetables, query_time \in 0..(day_end + 1) :
          \E stop_index \in 0..(Len(timetables[key].stop_ids) - 1) :
             result' = LookupCall("_lookup_arrival", key, stop_index,
                                  query_time,
                                  _lookup_arrival(timetables[key],
                                                  stop_index, query_time))
    /\ UNCHANGED <<feed, street, raster, connector>>

\* a direct call of Timetable.find_timetable_events; np tells whether
\* stop_id is passed as a numpy scalar
FindTimetableEvents ==
    /\ result = Idle
    /\ \E key \in DOMAIN timetables, query_time \in 0..(day_end + 1),
          stop_id \in Stops, np \in BOOLEAN, find_departure \in BOOLEAN :
          result' = [op |-> "find_timetable_events", key |-> key,
                     stop_id |-> stop_id, np |-> np,
                     query_time |-> query_time,
                     find_departure |-> find_departure,
                     ret |-> find_timetable_events(timetables[key], stop_id,
                                                   np, query_time,
                                                   find_departure)]
    /\ UNCHANGED <<feed, street, raster, connector>>

NextTT == LookupDeparture \/ LookupArrival \/ FindTimetableEvents \/ Restart

SpecTT == InitTT /\ [][NextTT]_vars

-----------------------------------------------------------------------------
(* StreetData *)

NodeRef(way_id, node_index) == <<way_id, node_index>>

StreetNodeVertex(node_id, time) ==
    [kind |-> "StreetNode", node_id |-> node_id, time |-> time]

\* geodesic_distance, in meters: nodes lie on a grid whose unit is 6 meters
\* and the distance between two of them is measured along the grid
Abs(x) == IF x < 0 THEN -x ELSE x

geodesic_distance(pt1, pt2) ==
    6 * (Abs(pt1.lon - pt2.lon) + Abs(pt1.lat - pt2.lat))

\* the sum of the distances between consecutive points
RECURSIVE geodesic_linestring_length(_)
geodesic_linestring_length(ls) ==
    IF Len(ls) < 2 THEN 0
    ELSE geodesic_distance(ls[1], ls[2]) + geodesic_linestring_length(Tail(ls))

\* distance / WALKING_SPEED, in seconds
WalkSeconds(distance) == (distance * 10) \div WALKING_SPEED_TENTHS

\* _get_node_references: every (way, position) at which a node is used
WayPositions(ws) ==
    UNION {{NodeRef(w, i - 1) : i \in 1..Len(ws[w].nds)} : w \in DOMAIN ws}

NodeReferences(ws) ==
    [nd \in UNION {Range(ws[w].nds) : w \in DOMAIN ws} |->
        {r \in WayPositions(ws) : ws[r[1]].nds[r[2] + 1] = nd}]

\* _get_way_vertex_nodes: per way, the ascending indices of the first
\* node, the last node and the nodes referenced more than once
RECURSIVE VertexNodesUpTo(_, _, _)
VertexNodesUpTo(nds, refs, n) ==
    IF n = 0 THEN <<>>
    ELSE VertexNodesUpTo(nds, refs, n - 1)
         \o (IF \/ n - 1 = 0
                \/ n - 1 = Len(nds) - 1
                \/ Cardinality(refs[nds[n]]) > 1
             THEN <<n - 1>> ELSE <<>>)

WayVertexNodes(ws, refs) ==
    [w \in DOMAIN ws |-> VertexNodesUpTo(ws[w].nds, refs, Len(ws[w].nds))]

\* adj_vertex_node: the first vertex node at or after node_index (forward),
\* the last at or before it (reverse); None when the scan finds nothing
RECURSIVE FirstAtOrAfter(_, _)
FirstAtOrAfter(vns, node_index) ==
    IF vns = <<>> THEN None
    ELSE IF Head(vns) >= node_index THEN <<Head(vns)>>
    ELSE FirstAtOrAfter(Tail(vns), node_index)

RECURSIVE LastAtOrBefore(_, _, _)
LastAtOrBefore(vns, node_index, n) ==
    IF n = 0 THEN None
    ELSE IF vns[n] <= node_index THEN <<vns[n]>>
    ELSE LastAtOrBefore(vns, node_index, n - 1)

adj_vertex_node_scanning_backwards(node_ref, search_forward) ==
    LET vns == way_vertex_nodes[node_ref[1]]
    IN IF search_forward
       THEN LastAtOrBefore(vns, Len(ways[node_ref[1]].nds), Len(vns))
       ELSE FirstAtOrAfter(vns, 0)

adj_vertex_node(node_ref, search_forward) ==
    LET vns == way_vertex_nodes[node_ref[1]]
    IN IF search_forward
       THEN FirstAtOrAfter(vns, node_ref[2])
       ELSE LastAtOrBefore(vns, node_ref[2], Len(vns))

is_oneway(way_id) ==
    /\ "oneway" \in DOMAIN ways[way_id].tags
    /\ ways[way_id].tags["oneway"] \in {"yes", "true", "1"}

-----------------------------------------------------------------------------
(* StreetEdgeProvider *)

\* the coordinates of way.nds[from], way.nds[from + 1], ..., way.nds[to]
\* (0-based, inclusive) when from <= to, and of way.nds[from],
\* way.nds[from - 1], ..., way.nds[to] when from > to
BlockPoints(nds, from, to) ==
    IF from <= to
    THEN [k \in 1..(to - from + 1) |-> nodes[nds[from + k]]]
    ELSE [k \in 1..(from - to + 1) |-> nodes[nds[from + 2 - k]]]

Block(ls, block_end_node_id) == [ls |-> ls, end |-> block_end_node_id]

\* None at the end of the way; else the block from start to the next
\* vertex node
_get_forward_block(start) ==
    LET nds == ways[start[1]].nds
    IN IF start[2] = Len(nds) - 1
       THEN None
       ELSE LET seg_end == adj_vertex_node(NodeRef(start[1], start[2] + 1),
                                           TRUE)[1]
            IN <<Block(BlockPoints(nds, start[2], seg_end), nds[seg_end + 1])>>

\* None at the beginning of the way; else the block from start back to the
\* previous vertex node
_get_reverse_block(start) ==
    LET nds == ways[start[1]].nds
    IN IF start[2] = 0
       THEN None
       ELSE LET seg_end == adj_vertex_node(NodeRef(start[1], start[2] - 1),
                                           FALSE)[1]
            IN <<Block(BlockPoints(nds, start[2], seg_end), nds[seg_end + 1])>>

\* the edge along a block, leaving at time: (edge, arrival time)
BlockEdge(block, time) ==
    LET distance == geodesic_linestring_length(block.ls)
        dt == WalkSeconds(distance)
        weight == dt * WALKING_RELUCTANCE
    IN Edge(StreetNodeVertex(block.end, time + dt), weight)

\* the time the edge after this one leaves at: the loop assigns the vertex
\* it has just built to the variable it reads the time from
NextBlockTime(edge, time) == edge.vertex.time

\* the loop over the node references, in the order refs; time is
\* vertex.time as the iteration finds it
RECURSIVE StreetNodeEdges(_, _)
StreetNodeEdges(refs, time) ==
    IF refs = <<>> THEN <<>>
    ELSE LET node_ref == Head(refs)
             fwd == _get_forward_block(node_ref)
             e_fwd == IF fwd # None
                      THEN <<BlockEdge(fwd[1], time)>> ELSE <<>>
             time1 == IF fwd # None
                      THEN NextBlockTime(e_fwd[1], time) ELSE time
             rev == IF ~is_oneway(node_ref[1])
                    THEN _get_reverse_block(node_ref) ELSE None
             e_rev == IF rev # None
                      THEN <<BlockEdge(rev[1], time1)>> ELSE <<>>
             time2 == IF rev # None
                      THEN NextBlockTime(e_rev[1], time1) ELSE time1
         IN e_fwd \o e_rev \o StreetNodeEdges(Tail(refs), time2)

\* MidSegmentRef(SegmentRef(way_id, segment_index), offset): offset_int is
\* int(offset * 100000)
MidSegmentRef(way_id, segment_index, offset_int) ==
    [way_id |-> way_id, segment_index |-> segment_index,
     offset_int |-> offset_int]

MidstreetVertex(midseg_ref, time) ==
    [kind |-> "Midstreet", midseg_ref |-> midseg_ref, time |-> time]

\* a point with its coordinates in half grid units
Halves(pt) == [lon |-> 2 * pt.lon, lat |-> 2 * pt.lat]

\* StreetData.get_way_point, in half grid units: the point at the
\* normalized offset between the two nodes of the segment (the offsets of
\* the model are 0, 0.5 and 1); the caller has checked the segment index
get_way_point(midseg_ref) ==
    LET nds == ways[midseg_ref.way_id].nds
        pt1 == nodes[nds[midseg_ref.segment_index + 1]]
        pt2 == nodes[nds[midseg_ref.segment_index + 2]]
        o == midseg_ref.offset_int \div 50000
    IN [lon |-> 2 * pt1.lon + o * (pt2.lon - pt1.lon),
        lat |-> 2 * pt1.lat + o * (pt2.lat - pt1.lat)]

\* geodesic_linestring_length([midpoint] + the nodes' points), in meters
MidstreetLength(midpoint, pts) ==
    geodesic_linestring_length(
        <<midpoint>> \o [k \in 1..Len(pts) |-> Halves(pts[k])]) \div 2

\* the edge from a Midstreet vertex along pts to the node end_node_id
MidstreetEdge(midpoint, pts, end_node_id, time) ==
    LET distance == MidstreetLength(midpoint, pts)
        dt == WalkSeconds(distance)
        weight == dt * WALKING_RELUCTANCE
    IN Edge(StreetNodeVertex(end_node_id, time + dt), weight)

\* the forward edge alone, as _outgoing_midstreet_vertex builds it
MidstreetForwardEdge(v) ==
    LET ref == v.midseg_ref
        nds == ways[ref.way_id].nds
        seg_start == ref.segment_index + 1
        seg_end == adj_vertex_node(NodeRef(ref.way_id, seg_start), TRUE)[1]
    IN MidstreetEdge(get_way_point(ref), BlockPoints(nds, seg_start, seg_end),
                     nds[seg_end + 1], v.time)

\* the reverse edge: nds[seg_start:inclusive_seg_end:-1] runs from
\* seg_start back to seg_end
MidstreetReverseEdge(v) ==
    LET ref == v.midseg_ref
        nds == ways[ref.way_id].nds
        seg_start == ref.segment_index
        seg_end == adj_vertex_node(NodeRef(ref.way_id, seg_start), FALSE)[1]
    IN MidstreetEdge(get_way_point(ref), BlockPoints(nds, seg_start, seg_end),
                     nds[seg_end + 1], v.time)

\* the reverse edge emitted whatever the oneway tag says
_outgoing_midstreet_vertex_both_ways(v) ==
    LET ref == v.midseg_ref
    IN IF \/ ref.segment_index < 0
          \/ ref.segment_index >= Len(ways[ref.way_id].nds) - 1
       THEN Raised
       ELSE Returned(<<MidstreetForwardEdge(v), MidstreetReverseEdge(v)>>)

\* get_way_point raises ValueError for a segment index out of range
_outgoing_midstreet_vertex(v) ==
    LET ref == v.midseg_ref
    IN IF \/ ref.segment_index < 0
          \/ ref.segment_index >= Len(ways[ref.way_id].nds) - 1
       THEN Raised
       ELSE Returned(<<MidstreetForwardEdge(v)>>
                     \o (IF ~is_oneway(ref.way_id)
                         THEN <<MidstreetReverseEdge(v)>> ELSE <<>>))

\* the orders in which a set can be iterated
Orders(S) ==
    {o \in [1..Cardinality(S) -> S] :
        \A i, j \in 1..Cardinality(S) : i # j => o[i] # o[j]}

\* node_refs after self.osm_data.node_refs[node_id]: a defaultdict gives a
\* missing key an empty set
NodeRefsAfterLookup(node_id) ==
    IF node_id \in DOMAIN node_refs
    THEN node_refs
    ELSE [nd \in DOMAIN node_refs \cup {node_id} |->
             IF nd = node_id THEN {} ELSE node_refs[nd]]

-----------------------------------------------------------------------------
(* Street networks *)

\* the coordinates of the nodes of the OSM file, in grid units
NodeCoordinates ==
    [nd \in 1..6 |->
        [lon |-> <<0, 1, 2, 4, 1, 1>>[nd], lat |-> <<0, 0, 0, 0, 1, 3>>[nd]]]

WayNds == {<<1, 2, 3, 4>>, <<5, 2, 6>>, <<3, 5>>}

NoTags == [k \in {} |-> ""]

WayTags == {NoTags, [oneway |-> "yes"], [oneway |-> "no"]}

WayChoices == [nds : WayNds, tags : WayTags]

StreetWays == UNION {[1..n -> WayChoices] : n \in 1..MaxWays}

\* one trip, for the feed that stands beside the street data
OneTrip == <<TripRow(1, 1, <<"A", "B">>, 0, 0, 1800)>>

\* the state after StreetData.__init__: only the nodes that a way uses
\* are kept
InitStreet ==
    /\ Built(OneTrip, [d \in Dates |-> Services])
    /\ ways \in StreetWays
    /\ nodes = [nd \in UNION {Range(ways[w].nds) : w \in DOMAIN ways} |->
                   NodeCoordinates[nd]]
    /\ node_refs = NodeReferences(ways)
    /\ way_vertex_nodes = WayVertexNodes(ways, node_refs)
    /\ NoRaster
    /\ NoConnector
    /\ result = Idle

\* the times at which a traversal of the street network starts
StreetStartTimes == {1000}

\* the record of a call of outgoing during a traversal; hops counts the
\* edges followed so far
StreetCall(v, hops, edges) ==
    [op |-> "street_outgoing", vertex |-> v, hops |-> hops,
     raised |-> FALSE, edges |-> edges]

\* StreetEdgeProvider.outgoing on StreetNode(node_id, time)
ExpandStreetNode(v, hops) ==
    /\ \E o \in Orders(NodeRefsAfterLookup(v.node_id)[v.node_id]) :
          result' = StreetCall(v, hops, StreetNodeEdges(o, v.time))
    /\ node_refs' = NodeRefsAfterLookup(v.node_id)
    /\ UNCHANGED <<feed, nodes, ways, way_vertex_nodes, raster, connector>>

\* the driver expands a start vertex StreetNode(node_id, time)
StreetNodeOutgoing ==
    /\ result = Idle
    /\ \E node_id \in 1..7, time \in StreetStartTimes :
          ExpandStreetNode(StreetNodeVertex(node_id, time), 0)

\* the driver follows an edge of the last call and expands its target
FollowStreet ==
    /\ result.op = "street_outgoing"
    /\ result.hops < MaxHops
    /\ \E i \in 1..Len(result.edges) :
          ExpandStreetNode(result.edges[i].vertex, result.hops + 1)

\* the offsets of the Midstreet vertices the driver starts from: the two
\* ends of a segment and its middle
Offsets == {0, 50000, 100000}

\* the driver expands a start vertex Midstreet(MidSegmentRef(...), time);
\* segment_index ranges over the node indices of the way, the last of which
\* begins no segment
MidstreetOutgoing ==
    /\ result = Idle
    /\ \E way_id \in DOMAIN ways, offset_int \in Offsets,
          time \in StreetStartTimes :
          \E segment_index \in 0..(Len(ways[way_id].nds) - 1) :
             LET v == MidstreetVertex(
                          MidSegmentRef(way_id, segment_index, offset_int),
                          time)
             IN result' = [op |-> "midstreet_outgoing", vertex |-> v]
                             @@ _outgoing_midstreet_vertex(v)
    /\ UNCHANGED <<feed, street, raster, connector>>

\* a direct call of StreetData.adj_vertex_node at a node index of a way
AdjVertexNode ==
    /\ result = Idle
    /\ \E way_id \in DOMAIN ways, search_forward \in BOOLEAN :
          \E node_index \in 0..(Len(ways[way_id].nds) - 1) :
             result' = [op |-> "adj_vertex_node", way_id |-> way_id,
                        node_index |-> node_index,
                        search_forward |-> search_forward,
                        ret |-> adj_vertex_node(NodeRef(way_id, node_index),
                                                search_forward)]
    /\ UNCHANGED <<feed, street, raster, connector>>

NextStreet ==
    \/ StreetNodeOutgoing
    \/ FollowStreet
    \/ MidstreetOutgoing
    \/ AdjVertexNode
    \/ Restart

SpecStreet == InitStreet /\ [][NextStreet]_vars

-----------------------------------------------------------------------------
(* ElevationRaster: the raster that StreetData.__init__ samples at every    *)
(* node, inside a with statement                                            *)

\* the raster of the model: 3 rows and 3 columns, georeferenced so that
\* self._file.index(lon, lat) is (row, col) = (lat, lon)
RasterShape == [height |-> 3, width |-> 3]

\* get_elevation without its check of self._elevdata: with the band dropped
\* the window cannot be read
get_elevation_checking_file_only(lon, lat) ==
    IF _file = "None"
    THEN "RuntimeError"
    ELSE IF lat < 0 \/ lon < 0 \/ lat >= RasterShape.height
               \/ lon >= RasterShape.width
    THEN "nan"
    ELSE IF _elevdata = "None"
    THEN "TypeError"
    ELSE IF lat + 2 > RasterShape.height \/ lon + 2 > RasterShape.width
    THEN "IndexError"
    ELSE "elevation"

\* what ElevationRaster.get_elevation(lon, lat) does: it raises RuntimeError
\* outside a with statement, returns nan off the raster, raises IndexError
\* in _interpolate when the 2x2 window is cut by the last row or column, and
\* returns the interpolated elevation otherwise
get_elevation(lon, lat) ==
    IF _file = "None"
    THEN "RuntimeError"
    ELSE IF _elevdata = "None"
    THEN "RuntimeError"
    ELSE IF lat < 0 \/ lon < 0 \/ lat >= RasterShape.height
               \/ lon >= RasterShape.width
    THEN "nan"
    ELSE IF lat + 2 > RasterShape.height \/ lon + 2 > RasterShape.width
    THEN "IndexError"
    ELSE "elevation"

\* ElevationRaster.__enter__, at the head of a with statement: rasterio.open
\* or the read of the first band may fail, and then the body is not entered
Enter ==
    /\ scope # "open"
    /\ \E opened \in BOOLEAN, read \in BOOLEAN :
          /\ _file' = IF opened THEN "open" ELSE _file
          /\ _elevdata' = IF opened /\ read THEN "band1" ELSE _elevdata
          /\ scope' = IF opened /\ read THEN "open" ELSE scope
          /\ result' = [op |-> "__enter__", raised |-> ~(opened /\ read)]
    /\ UNCHANGED <<feed, street, connector>>

\* ElevationRaster.__exit__, called when the body of the with statement is
\* left, normally or by an exception, or called directly
Exit ==
    /\ \E exc \in BOOLEAN :
          result' = [op |-> "__exit__", exc |-> exc]
    /\ _file' = IF _file # "None" THEN "closed" ELSE _file
    /\ _elevdata' = "None"
    /\ scope' = IF scope = "open" THEN "closed" ELSE scope
    /\ UNCHANGED <<feed, street, connector>>

\* a call of get_elevation for a node of the street network, as in
\* StreetData.__init__
GetElevation ==
    /\ \E nd \in DOMAIN nodes :
          result' = [op |-> "get_elevation", node |-> nd,
                     outcome |-> get_elevation(nodes[nd].lon, nodes[nd].lat)]
    /\ UNCHANGED <<feed, street, raster, connector>>

NextRaster == Enter \/ Exit \/ GetElevation

SpecRaster == InitStreet /\ [][NextRaster]_vars

-----------------------------------------------------------------------------
(* Properties *)

IsOutgoingOf(kind) == result.op = "outgoing" /\ result.vertex.kind = kind

IsFindStopEvents == result.op = "find_stop_events"

\* the service date and the query seconds find_stop_events settles on
QueryDate == result.query_date

QueryTime == result.query_time

\* C1: for AtStop(s, t), outgoing emits one edge per departure event that
\* find_stop_events(s, t, departures) returns, to the Departure vertex of
\* that event, and its weight is the waiting time t_dep - t in seconds
C1_WaitingTimeWeight ==
    (IsOutgoingOf("AtStop") /\ ~result.raised) =>
        LET v == result.vertex
            events == find_stop_events(v.stop_id, v.np, v.time, TRUE).events
        IN /\ Len(result.edges) = Len(events)
           /\ \A i \in 1..Len(events) :
                 /\ result.edges[i].vertex =
                       DepartureVertex(events[i].pattern_id,
                                       events[i].service_id, events[i].row,
                                       events[i].col, events[i].datetime)
                 /\ result.edges[i].weight = events[i].datetime - v.time

\* C2: outgoing never raises on a vertex reached by following the edges
\* from an AtStop vertex, the Departure vertex that Arrival.outgoing emits
\* for the last column of a pattern included
C2_ReachedVerticesExpand ==
    (IsOutgoingOf("Departure") \/ IsOutgoingOf("Arrival")) => ~result.raised

\* C3: outgoing(AtStop(s, t)) returns an empty list, and does not raise,
\* when the service date of the query is absent from the expanded calendar
\* or when no stop pattern visits s
C3_NoServiceNoEdges ==
    (/\ IsOutgoingOf("AtStop")
     /\ LET v == result.vertex
        IN \/ find_stop_events(v.stop_id, v.np, v.time, TRUE).query_date
                 \notin DOMAIN service_dates
           \/ \A p \in DOMAIN stop_patterns :
                 v.stop_id \notin Range(stop_patterns[p]))
    => (~result.raised /\ result.edges = <<>>)

\* the timetable seconds of the event e that the last find_stop_events
\* call returned: a departure time when it looked for departures, else an
\* arrival time
EventSeconds(e) ==
    LET tt == timetables[<<e.pattern_id, e.service_id>>]
    IN IF result.find_departures
       THEN tt.departure_times[e.row + 1][e.col + 1]
       ELSE tt.arrival_times[e.row + 1][e.col + 1]

\* the date and the seconds since midnight of the last query
AskedDate == DateOf(result.query_datetime)

AskedSeconds == seconds_since_midnight(result.query_datetime)

\* some timetable of a service active on date d has a row that leaves
\* stop_id, from a column that is not the last, at time secs
DepartsAt(stop_id, d, secs) ==
    /\ d \in DOMAIN service_dates
    /\ \E key \in DOMAIN timetables :
          /\ key[2] \in service_dates[d]
          /\ \E c \in 1..(Len(timetables[key].stop_ids) - 1) :
                /\ timetables[key].stop_ids[c] = stop_id
                /\ \E r \in 1..Len(timetables[key].departure_times) :
                      timetables[key].departure_times[r][c] = secs

\* C5, as stated: with day_end = 93600 a query at 02:00 on date D consults
\* date D - 1 with the query seconds shifted by 86400, and returns a
\* departure scheduled at 25:30 on D - 1
C5_RolloverAtTwoAsStated ==
    (/\ IsFindStopEvents
     /\ day_end = 93600
     /\ AskedSeconds = 7200) =>
        /\ QueryDate = AskedDate - 1
        /\ QueryTime = 7200 + secs_in_day
        /\ (/\ result.find_departures
            /\ result.np
            /\ DepartsAt(result.stop_id, AskedDate - 1, 91800))
           => \E i \in 1..Len(result.events) :
                 result.events[i].datetime = Timestamp(AskedDate - 1, 91800)

\* C5, amended: with day_end = 93600 a query at 02:00 on date D is not
\* shifted (7200 + 86400 is not below day_end): it consults date D with
\* query seconds 7200 and every event it returns is stamped on or after
\* midnight of D, so the 25:30 departure of D - 1 is not returned; a query
\* at 01:00 is shifted, consults D - 1 with query
\* seconds 90000, and stamps an event for a 25:30 departure at
\* midnight(D - 1) + 91800
C5_RolloverBoundary ==
    (IsFindStopEvents /\ day_end = 93600) =>
        /\ AskedSeconds = 7200 =>
              /\ QueryDate = AskedDate
              /\ QueryTime = 7200
              /\ \A i \in 1..Len(result.events) :
                    /\ result.events[i].datetime >= Timestamp(AskedDate, 0)
                    /\ result.events[i].datetime
                          # Timestamp(AskedDate - 1, 91800)
        /\ AskedSeconds = 3600 =>
              /\ QueryDate = AskedDate - 1
              /\ QueryTime = 90000
              /\ \A i \in 1..Len(result.events) :
                    EventSeconds(result.events[i]) = 91800 =>
                        result.events[i].datetime
                           = Timestamp(AskedDate - 1, 91800)

\* C5 witness: day_end is 93600, stop s has a 25:30 departure on D - 1, and
\* a departure query for s at 02:00 on D returned without that departure
C5_Witness ==
    /\ IsFindStopEvents
    /\ day_end = 93600
    /\ AskedSeconds = 7200
    /\ result.find_departures
    /\ result.np
    /\ ~result.raised
    /\ DepartsAt(result.stop_id, AskedDate - 1, 91800)
    /\ QueryDate = AskedDate
    /\ \A i \in 1..Len(result.events) :
          result.events[i].datetime # Timestamp(AskedDate - 1, 91800)

\* reachability of the shifted half of C5: a query at 01:00 returned the
\* 25:30 departure of the day before
C5_ShiftedReturns ==
    /\ IsFindStopEvents
    /\ day_end = 93600
    /\ AskedSeconds = 3600
    /\ result.find_departures
    /\ \E i \in 1..Len(result.events) :
          result.events[i].datetime = Timestamp(AskedDate - 1, 91800)

\* C6: find_stop_events shifts the query (adds 86400 to the seconds, takes
\* one day off the service date) exactly when seconds_since_midnight +
\* 86400 < day_end, day_end being the largest departure_time of the feed,
\* and every event it returns is stamped midnight(service date) + the
\* timetable seconds of its row and column
C6_RolloverRule ==
    /\ \A i \in 1..Len(trips) : \A c \in 1..Len(trips[i].departure_time) :
          trips[i].departure_time[c] <= day_end
    /\ \E i \in 1..Len(trips) : \E c \in 1..Len(trips[i].departure_time) :
          trips[i].departure_time[c] = day_end
    /\ IsFindStopEvents =>
          /\ IF AskedSeconds + 86400 < day_end
             THEN QueryDate = AskedDate - 1 /\ QueryTime = AskedSeconds + 86400
             ELSE QueryDate = AskedDate /\ QueryTime = AskedSeconds
          /\ \A i \in 1..Len(result.events) :
                result.events[i].datetime
                   = QueryDate * 86400 + EventSeconds(result.events[i])

\* C6 witness: against day_end 97200 a query at 01:30 on date 2 used
\* service date 1 and query seconds 91800, and returned an event
C6_Witness ==
    /\ IsFindStopEvents
    /\ day_end = 97200
    /\ result.query_datetime = Timestamp(2, 5400)
    /\ QueryDate = 1
    /\ QueryTime = 91800
    /\ result.events # <<>>

\* the edges that C4 describes for StreetNode v: for each reference (way, i)
\* of the node a forward block edge when i < |nds| - 1 and a reverse block
\* edge when i > 0 and the way is not one-way, each arriving at v.time plus
\* the walking time of its own block
DescribedStreetEdges(v) ==
    LET refs == node_refs[v.node_id]
        fwd == {r \in refs : r[2] < Len(ways[r[1]].nds) - 1}
        rev == {r \in refs : r[2] > 0 /\ ~is_oneway(r[1])}
    IN {BlockEdge(_get_forward_block(r)[1], v.time) : r \in fwd}
       \cup {BlockEdge(_get_reverse_block(r)[1], v.time) : r \in rev}

\* C4: outgoing(StreetNode(node, t)) emits exactly the forward and reverse
\* block edges of the node's references, and the target of every edge is
\* stamped t + dt for the dt of its own block, whatever other edges the
\* same call emits
C4_StreetNodeEdgeTimes ==
    (result.op = "street_outgoing") =>
        /\ \A i \in 1..Len(result.edges) :
              result.edges[i] \in DescribedStreetEdges(result.vertex)
        /\ \A e \in DescribedStreetEdges(result.vertex) :
              \E i \in 1..Len(result.edges) : result.edges[i] = e

\* the rows and columns of a timetable, 1-based
Rows(tt) == 1..Len(tt.departure_times)

Cols(tt) == 1..Len(tt.stop_ids)

\* arrival[r][c] <= departure[r][c]
ArrivesBeforeLeaving(tt) ==
    \A r \in Rows(tt), c \in Cols(tt) :
        tt.arrival_times[r][c] <= tt.departure_times[r][c]

\* departure[r][c] < arrival[r][c+1]
NoZeroLengthHop(tt) ==
    \A r \in Rows(tt), c \in Cols(tt) :
        c < Len(tt.stop_ids) => tt.departure_times[r][c] < tt.arrival_times[r][c + 1]

\* no row overtakes another at any column
FIFO(tt) ==
    \A r1, r2 \in Rows(tt), c \in Cols(tt) :
        r1 < r2 => /\ tt.departure_times[r1][c] <= tt.departure_times[r2][c]
                   /\ tt.arrival_times[r1][c] <= tt.arrival_times[r2][c]

\* C7: the three timetable invariants hold of every timetable the feed
\* makes available for lookup (a feed that violates one is rejected)
C7_InvariantsVerified ==
    \A key \in DOMAIN timetables :
        /\ ArrivesBeforeLeaving(timetables[key])
        /\ NoZeroLengthHop(timetables[key])
        /\ FIFO(timetables[key])

\* C8: in every timetable the feed builds the rows are ascending in their
\* first-stop departure time and no row overtakes another, so that every
\* departure column is sorted
C8_RowsSortedByDeparture ==
    \A key \in DOMAIN timetables :
        /\ \A r1, r2 \in Rows(timetables[key]) :
              r1 < r2 => timetables[key].departure_times[r1][1]
                            <= timetables[key].departure_times[r2][1]
        /\ FIFO(timetables[key])

\* the departure column the last lookup searched, and the timetable
LookupTimetable == timetables[result.key]

LookupColumn == Column(LookupTimetable.departure_times, result.stop_index)

IsSorted(a) == \A i, j \in 1..Len(a) : i < j => a[i] <= a[j]

\* the 0-based rows that leave the looked-up column at the query time
RowsLeavingAtQuery ==
    {r - 1 : r \in {x \in 1..Len(LookupColumn) :
                       LookupColumn[x] = result.query_time}}

IsDepartureRoundTrip ==
    /\ result.op = "_lookup_departure"
    /\ result.stop_index < Len(LookupTimetable.stop_ids) - 1
    /\ RowsLeavingAtQuery # {}

IsArrivalRoundTrip ==
    /\ result.op = "_lookup_arrival"
    /\ result.stop_index > 0
    /\ RowsLeavingAtQuery # {}

\* C9, as stated: next_departure(c, departure[r][c]) is (r, departure[r][c])
\* for every row r and non-terminal column c, also when other rows leave c
\* at the same time
C9_DepartureRoundTripAsStated ==
    IsDepartureRoundTrip =>
        \A r \in RowsLeavingAtQuery : result.ret = <<r, result.query_time>>

\* C9, amended: for a non-terminal column c whose departure column is
\* sorted ascending, next_departure(c, departure[r][c]) is
\* (r0, departure[r][c]) with r0 the smallest row that leaves c at that
\* time (r0 = r exactly when no earlier row ties with r); on a column that
\* is not sorted the lookup returns none or a row r' that leaves at or
\* after the query while the row before r', if any, leaves before the query
C9_DepartureRoundTrip ==
    IsDepartureRoundTrip =>
        /\ IsSorted(LookupColumn) =>
              /\ result.ret # None
              /\ result.ret[1] \in RowsLeavingAtQuery
              /\ \A r \in RowsLeavingAtQuery : result.ret[1] <= r
              /\ result.ret[2] = result.query_time
        /\ result.ret # None =>
              /\ result.ret[1] \in 0..(Len(LookupColumn) - 1)
              /\ result.ret[2] = LookupColumn[result.ret[1] + 1]
              /\ result.ret[2] >= result.query_time
              /\ result.ret[1] > 0 =>
                    LookupColumn[result.ret[1]] < result.query_time

\* C9 witness: two rows leave a sorted non-terminal column at the query
\* time and the lookup returned the earlier row
C9_Witness ==
    /\ IsDepartureRoundTrip
    /\ IsSorted(LookupColumn)
    /\ Cardinality(RowsLeavingAtQuery) > 1
    /\ result.ret # None
    /\ \E r \in RowsLeavingAtQuery : result.ret[1] < r

\* C10, as stated: prev_arrival(c, departure[r][c]) is (r, arrival[r][c])
\* for every row r and column c > 0, also when other rows have the same
\* departure time at c
C10_ArrivalRoundTripAsStated ==
    IsArrivalRoundTrip =>
        \A r \in RowsLeavingAtQuery :
            result.ret =
               <<r, LookupTimetable.arrival_times[r + 1][result.stop_index + 1]>>

\* C10, amended: for a column c > 0 whose departure column is sorted
\* ascending, prev_arrival(c, departure[r][c]) is (r1, arrival[r1][c]) with
\* r1 the largest row that leaves c at that time (r1 = r exactly when no
\* later row ties with r); on a column that is not sorted the lookup
\* returns none or a row r' that leaves at or before the query while the
\* row after r', if any, leaves after the query
C10_ArrivalRoundTrip ==
    IsArrivalRoundTrip =>
        /\ IsSorted(LookupColumn) =>
              /\ result.ret # None
              /\ result.ret[1] \in RowsLeavingAtQuery
              /\ \A r \in RowsLeavingAtQuery : result.ret[1] >= r
        /\ result.ret # None =>
              /\ result.ret[1] \in 0..(Len(LookupColumn) - 1)
              /\ result.ret[2] =
                    LookupTimetable.arrival_times[result.ret[1] + 1]
                                                 [result.stop_index + 1]
              /\ LookupColumn[result.ret[1] + 1] <= result.query_time
              /\ result.ret[1] < Len(LookupColumn) - 1 =>
                    LookupColumn[result.ret[1] + 2] > result.query_time

\* C10 witness: two rows with different arrival times leave a sorted
\* column c > 0 at the query time and the lookup returned the later row
\* with that row's arrival time
C10_Witness ==
    /\ IsArrivalRoundTrip
    /\ IsSorted(LookupColumn)
    /\ result.ret # None
    /\ \E r \in RowsLeavingAtQuery :
          /\ result.ret[1] > r
          /\ result.ret[2] #
                LookupTimetable.arrival_times[r + 1][result.stop_index + 1]

\* the arrival column of the last lookup
LookupArrivals == Column(LookupTimetable.arrival_times, result.stop_index)

\* the 1-based rows of column a whose time is at most t, and at least t
RowsAtOrBefore(a, t) == {r \in 1..Len(a) : a[r] <= t}

RowsAtOrAfter(a, t) == {r \in 1..Len(a) : a[r] >= t}

Min(S) == CHOOSE x \in S : \A y \in S : x <= y

C12_NextDeparture ==
    (result.op = "_lookup_departure") =>
        LET S == RowsAtOrAfter(LookupColumn, result.query_time)
        IN IF result.stop_index = Len(LookupTimetable.stop_ids) - 1
           THEN result.ret = None
           ELSE IsSorted(LookupColumn) =>
                   IF S = {}
                   THEN result.ret = None
                   ELSE result.ret = <<Min(S) - 1, LookupColumn[Min(S)]>>

\* C12 witness: on a sorted non-terminal column the first row leaves before
\* the query time and the lookup returned a later row that leaves after it
C12_Witness ==
    /\ result.op = "_lookup_departure"
    /\ result.stop_index < Len(LookupTimetable.stop_ids) - 1
    /\ IsSorted(LookupColumn)
    /\ LookupColumn[1] < result.query_time
    /\ result.ret # None
    /\ result.ret[1] > 0
    /\ result.ret[2] > result.query_time

\* C13: events_at(stop_id, query_time, direction) returns one event
\* (row, col, time) for every column c with stop_ids[c] = stop_id whose
\* lookup is not none, and nothing else, whether the stop id is a string or
\* an integer; so a departure query for A after the only departure of
\* pattern [A, B, A] from its first stop returns an empty list
C13_EventsAtEveryColumn ==
    (result.op = "find_timetable_events") =>
        LET tt == timetables[result.key]
            lookup(c) == IF result.find_departure
                         THEN _lookup_departure(tt, c, result.query_time)
                         ELSE _lookup_arrival(tt, c, result.query_time)
            hit == {c \in 0..(Len(tt.stop_ids) - 1) :
                       /\ tt.stop_ids[c + 1] = result.stop_id
                       /\ lookup(c) # None}
        IN /\ Len(result.ret) = Cardinality(hit)
           /\ \A c \in hit :
                 \E i \in 1..Len(result.ret) :
                    result.ret[i] =
                       TimetableEvent(lookup(c)[1], c, lookup(c)[2])

\* C14: the edges of outgoing(AtStop(s, t)) are ordered by pattern id
\* ascending and, within a pattern, by service id ascending
C14_EdgesOrderedByPatternThenService ==
    (IsOutgoingOf("AtStop") /\ ~result.raised) =>
        \A i, j \in 1..Len(result.edges) :
            i < j =>
                LET a == result.edges[i].vertex
                    b == result.edges[j].vertex
                IN \/ a.pattern_id < b.pattern_id
                   \/ /\ a.pattern_id = b.pattern_id
                      /\ a.service_id <= b.service_id

\* C15: after any sequence of queries every index is what construction
\* made of the inputs: node_refs and way_vertex_nodes of the ways, the
\* stop patterns, stop_pattern_ids and the timetables of the trips, with
\* the same key sets and the same values
C15_IndicesNeverMutated ==
    /\ node_refs = NodeReferences(ways)
    /\ way_vertex_nodes = WayVertexNodes(ways, NodeReferences(ways))
    /\ stop_patterns = StopPatterns(trips)
    /\ stop_pattern_ids = StopPatternIds(StopPatterns(trips))
    /\ timetables \in GetTimetables(trips, StopPatterns(trips))
    /\ day_end = DayEnd(trips)

\* the timetable of the vertex the last call of outgoing expanded
VertexTimetable ==
    timetables[<<result.vertex.pattern_id, result.vertex.service_id>>]

\* C16: outgoing(Arrival(p, svc, r, c, t)) returns exactly two edges, first
\* the wait edge to Departure(p, svc, r, c, t + dwell) with weight
\* dwell = dep[r, c] - arr[r, c], then the alight edge to
\* AtStop(stop_ids[c], t) with weight 60
C16_ArrivalWaitThenAlight ==
    IsOutgoingOf("Arrival") =>
        LET v == result.vertex
            dwell == VertexTimetable.departure_times[v.row + 1][v.col + 1]
                        - VertexTimetable.arrival_times[v.row + 1][v.col + 1]
        IN /\ ~result.raised
           /\ Len(result.edges) = 2
           /\ result.edges[1] =
                 Edge(DepartureVertex(v.pattern_id, v.service_id, v.row,
                                      v.col, v.datetime + dwell), dwell)
           /\ result.edges[2].vertex.kind = "AtStop"
           /\ result.edges[2].vertex.stop_id = VertexTimetable.stop_ids[v.col + 1]
           /\ result.edges[2].vertex.time = v.datetime
           /\ result.edges[2].weight = 60

\* C16 witness: an Arrival vertex of a trip that waits at the stop was
\* expanded
C16_Witness ==
    /\ IsOutgoingOf("Arrival")
    /\ Len(result.edges) = 2
    /\ result.edges[1].weight > 0
    /\ result.edges[1].vertex.datetime > result.vertex.datetime

\* C17: outgoing(Departure(p, svc, r, c, t)) with c < C - 1 returns exactly
\* one edge, to Arrival(p, svc, r, c + 1, t + hop), with weight
\* hop = arr[r, c + 1] - dep[r, c]
C17_DepartureRidesOneHop ==
    (/\ IsOutgoingOf("Departure")
     /\ result.vertex.col < Len(VertexTimetable.stop_ids) - 1) =>
        LET v == result.vertex
            hop == VertexTimetable.arrival_times[v.row + 1][v.col + 2]
                      - VertexTimetable.departure_times[v.row + 1][v.col + 1]
        IN /\ ~result.raised
           /\ result.edges =
                 <<Edge(ArrivalVertex(v.pattern_id, v.service_id, v.row,
                                      v.col + 1, v.datetime + hop), hop)>>

\* C17 witness: a Departure vertex of a column that is not the last was
\* expanded and the edge it returned arrives later
C17_Witness ==
    /\ IsOutgoingOf("Departure")
    /\ result.vertex.col < Len(VertexTimetable.stop_ids) - 1
    /\ Len(result.edges) = 1
    /\ result.edges[1].vertex.kind = "Arrival"
    /\ result.edges[1].vertex.datetime > result.vertex.datetime

\* C18: every edge that a call of outgoing returns has a weight >= 0,
\* whatever feed was read
C18_NonNegativeWeights ==
    ((result.op = "outgoing" \/ result.op = "street_outgoing")
        /\ ~result.raised) =>
        \A i \in 1..Len(result.edges) : result.edges[i].weight >= 0

\* C19: get_elevation raises the usage error whenever it is called before
\* the with statement over the raster is entered or after it is left, it
\* returns a value only inside the with statement, and __exit__ leaves no
\* raster file open, whether or not the body was left by an exception
C19_RasterScopeGuard ==
    /\ (result.op = "get_elevation" /\ scope # "open") =>
          result.outcome = "RuntimeError"
    /\ (result.op = "get_elevation"
           /\ result.outcome \in {"elevation", "nan"}) => scope = "open"
    /\ result.op = "__exit__" => (_file # "open" /\ _elevdata = "None")

\* C19 witness: the with statement was left, the file is closed, and a
\* later call of get_elevation raised the usage error
C19_Witness ==
    /\ result.op = "get_elevation"
    /\ scope = "closed"
    /\ _file = "closed"
    /\ result.outcome = "RuntimeError"

\* node index i of way w is a vertex node: the first or the last node of the
\* way, or a node that the ways refer to more than once
IsVertexNode(w, i) ==
    \/ i = 0
    \/ i = Len(ways[w].nds) - 1
    \/ Cardinality({r \in WayPositions(ways) :
                       ways[r[1]].nds[r[2] + 1] = ways[w].nds[i + 1]}) > 1

\* next_vertex_index: the first vertex node at or after index i, and the
\* last vertex node at or before index i
NextVertexIndex(w, i) ==
    Min({j \in i..(Len(ways[w].nds) - 1) : IsVertexNode(w, j)})

PrevVertexIndex(w, i) == Max({j \in 0..i : IsVertexNode(w, j)})

\* the way has a oneway tag with one of the values yes, true, 1
TaggedOneway(w) ==
    /\ "oneway" \in DOMAIN ways[w].tags
    /\ ways[w].tags["oneway"] \in {"yes", "true", "1"}

IsMidstreetOutgoing == result.op = "midstreet_outgoing" /\ ~result.raised

\* C20: for a Midstreet vertex on segment (way, k) outgoing returns first
\* the forward edge, to the StreetNode of the first vertex node at or after
\* k + 1, and then, only when the way is not tagged oneway yes, true or 1,
\* the reverse edge, to the StreetNode of the last vertex node at or before
\* k; a way tagged one-way yields exactly the forward edge
C20_MidstreetForwardThenReverse ==
    IsMidstreetOutgoing =>
        LET w == result.vertex.midseg_ref.way_id
            k == result.vertex.midseg_ref.segment_index
            nds == ways[w].nds
        IN /\ Len(result.edges) = IF TaggedOneway(w) THEN 1 ELSE 2
           /\ result.edges[1].vertex.kind = "StreetNode"
           /\ result.edges[1].vertex.node_id
                 = nds[NextVertexIndex(w, k + 1) + 1]
           /\ ~TaggedOneway(w) =>
                 /\ result.edges[2].vertex.kind = "StreetNode"
                 /\ result.edges[2].vertex.node_id
                       = nds[PrevVertexIndex(w, k) + 1]

\* C20 witness: a Midstreet vertex in the middle of a segment of a way
\* tagged oneway=yes was expanded and one edge came back, past a node that
\* is not a vertex node
C20_Witness ==
    /\ IsMidstreetOutgoing
    /\ TaggedOneway(result.vertex.midseg_ref.way_id)
    /\ result.vertex.midseg_ref.offset_int = 50000
    /\ Len(result.edges) = 1
    /\ NextVertexIndex(result.vertex.midseg_ref.way_id,
                       result.vertex.midseg_ref.segment_index + 1)
          > result.vertex.midseg_ref.segment_index + 1

-----------------------------------------------------------------------------
(* AbstractVertex: identity, equality and hashing                           *)

OnEarthSurfaceVertex(lon, lat, time) ==
    [kind |-> "OnEarthSurface", lon |-> lon, lat |-> lat, time |-> time]

\* as_tuple of each variant; an np.int64 stop id and the int of the same
\* value are equal and hash alike, so only the value enters the tuple
as_tuple_without_time(v) ==
    IF v.kind = "AtStop" THEN <<v.stop_id>>
    ELSE IF v.kind \in {"Departure", "Arrival"}
    THEN <<v.pattern_id, v.service_id, v.row, v.col>>
    ELSE IF v.kind = "OnEarthSurface" THEN <<v.lon, v.lat>>
    ELSE IF v.kind = "Midstreet" THEN <<v.midseg_ref>>
    ELSE <<v.node_id>>

as_tuple(v) ==
    IF v.kind = "AtStop" THEN <<v.stop_id, v.time>>
    ELSE IF v.kind \in {"Departure", "Arrival"}
    THEN <<v.pattern_id, v.service_id, v.row, v.col, v.datetime>>
    ELSE IF v.kind = "OnEarthSurface" THEN <<v.lon, v.lat, v.time>>
    ELSE IF v.kind = "Midstreet" THEN <<v.midseg_ref, v.time>>
    ELSE <<v.node_id, v.time>>

\* (self.__class__.__name__, self.as_tuple()); kind stands for the name of
\* the class
_identity_tuple(v) == <<v.kind, as_tuple(v)>>

\* AbstractVertex.__eq__ between two vertices: the comparison of the two
\* identity tuples, element by element, stopping at the first difference
__eq__(self, other) ==
    /\ _identity_tuple(self)[1] = _identity_tuple(other)[1]
    /\ _identity_tuple(self)[2] = _identity_tuple(other)[2]

\* hash of a tuple, as a function of the hashes of its elements in order
\* (a polynomial here; CPython mixes them otherwise, also in order)
RECURSIVE hash_tuple(_)
hash_tuple(hs) ==
    IF hs = <<>> THEN 7
    ELSE (31 * hash_tuple(SubSeq(hs, 1, Len(hs) - 1)) + hs[Len(hs)]) % 65521

\* hash of a str: fixed within a process; the class names get distinct ones
hash_str(s) ==
    CASE s = "AtStop" -> 11 [] s = "Departure" -> 12 [] s = "Arrival" -> 13
      [] s = "OnEarthSurface" -> 14 [] s = "Midstreet" -> 15
      [] OTHER -> 16

\* AbstractVertex.__hash__: hash(self._identity_tuple()); a small int
\* hashes to itself and a MidSegmentRef to hash((segment, offset_int))
__hash__(v) ==
    LET t == _identity_tuple(v)[2]
        h(i) == IF i = 1 /\ v.kind = "Midstreet"
                THEN hash_tuple(<<hash_tuple(<<t[1].way_id,
                                               t[1].segment_index>>),
                                  t[1].offset_int>>)
                ELSE t[i]
    IN hash_tuple(<<hash_str(_identity_tuple(v)[1]),
                    hash_tuple([i \in 1..Len(t) |-> h(i)])>>)

\* vertices of the six variants over small fields, so that different
\* variants meet with the same tuple
VertexSamples ==
    {AtStopVertex(x, np, t) : x \in {1, 2}, np \in BOOLEAN, t \in {0, 1}}
    \cup {StreetNodeVertex(x, t) : x \in {1, 2}, t \in {0, 1}}
    \cup {DepartureVertex(p, 1, 0, c, t) :
             p \in {0, 1}, c \in {0, 1}, t \in {0, 1}}
    \cup {ArrivalVertex(p, 1, 0, c, t) :
             p \in {0, 1}, c \in {0, 1}, t \in {0, 1}}
    \cup {MidstreetVertex(MidSegmentRef(1, k, o), t) :
             k \in {0, 1}, o \in {0, 50000}, t \in {0, 1}}
    \cup {OnEarthSurfaceVertex(lon, 0, t) : lon \in {0, 1}, t \in {0, 1}}

InitVertex ==
    /\ Built(OneTrip, [d \in Dates |-> Services])
    /\ NoStreet
    /\ NoRaster
    /\ NoConnector
    /\ result = Idle

\* a caller (a dict or a set of vertices) compares and hashes two vertices
CompareVertices ==
    /\ result = Idle
    /\ \E a \in VertexSamples, b \in VertexSamples :
          result' = [op |-> "compare", a |-> a, b |-> b,
                     eq |-> __eq__(a, b),
                     hash_a |-> __hash__(a), hash_b |-> __hash__(b)]
    /\ UNCHANGED <<feed, street, raster, connector>>

NextVertex == CompareVertices \/ Restart

SpecVertex == InitVertex /\ [][NextVertex]_vars

\* the fields two vertices of one variant were constructed with are equal
\* (an np.int64 stop id equals the int of the same value)
SameFields(a, b) ==
    IF a.kind = "AtStop" THEN a.stop_id = b.stop_id /\ a.time = b.time
    ELSE a = b

\* C21: vertices of different variants never compare equal; vertices of the
\* same variant compare equal exactly when their fields are equal; and
\* vertices that compare equal have equal hashes
C21_VariantQualifiedEquality ==
    result.op = "compare" =>
        /\ result.a.kind # result.b.kind => ~result.eq
        /\ result.a.kind = result.b.kind =>
              (result.eq <=> SameFields(result.a, result.b))
        /\ result.eq => result.hash_a = result.hash_b

\* a Departure and an Arrival with the same field tuple were compared
C21_Witness ==
    /\ result.op = "compare"
    /\ result.a.kind = "Departure"
    /\ result.b.kind = "Arrival"
    /\ as_tuple(result.a) = as_tuple(result.b)
    /\ ~result.eq

-----------------------------------------------------------------------------
(* GTFSFeed._expand_service_dates                                           *)

\* Timestamp.dayofweek, Monday = 0: date 0 (1970-01-01) is a Thursday
dayofweek(date) == (date + 3) % 7

\* expanded_cal[key] of the defaultdict(set): the set read, which is empty
\* for a missing key
DefaultDictGet(expanded_cal, key) ==
    IF key \in DOMAIN expanded_cal THEN expanded_cal[key] ELSE {}

\* the dict after expanded_cal[key] was read, which inserts a missing key,
\* and the set was updated in place to val
DefaultDictWith(expanded_cal, key, val) ==
    [k \in DOMAIN expanded_cal \cup {key} |->
        IF k = key THEN val ELSE expanded_cal[k]]

\* process_calendar_row: every date of pd.date_range(start_date, end_date)
\* whose weekday flag is 1 gets the service
process_calendar_row(expanded_cal, row) ==
    LET active == {date \in row.start_date..row.end_date :
                      row.weekdays[dayofweek(date) + 1] = 1}
    IN [k \in DOMAIN expanded_cal \cup active |->
           IF k \in active
           THEN DefaultDictGet(expanded_cal, k) \cup {row.service_id}
           ELSE expanded_cal[k]]

process_calendar_dates_row(expanded_cal, row) ==
    LET services == DefaultDictGet(expanded_cal, row.date)
    IN IF row.exception_type = 1
       THEN DefaultDictWith(expanded_cal, row.date,
                            services \cup {row.service_id})
       ELSE IF row.exception_type = 2
       THEN DefaultDictWith(expanded_cal, row.date,
                            services \ {row.service_id})
       ELSE expanded_cal

\* calendar.apply(process_calendar_row, axis=1): the rows in file order
RECURSIVE ApplyCalendar(_, _)
ApplyCalendar(expanded_cal, rows) ==
    IF rows = <<>> THEN expanded_cal
    ELSE ApplyCalendar(process_calendar_row(expanded_cal, Head(rows)),
                       Tail(rows))

\* calendar_dates.apply(process_calendar_dates_row, axis=1)
RECURSIVE ApplyCalendarDates(_, _)
ApplyCalendarDates(expanded_cal, rows) ==
    IF rows = <<>> THEN expanded_cal
    ELSE ApplyCalendarDates(
             process_calendar_dates_row(expanded_cal, Head(rows)),
             Tail(rows))

\* the dict returned for calendar.txt and calendar_dates.txt (a file that
\* is absent counts as one without rows)
_expand_service_dates(calendar, calendar_dates) ==
    ApplyCalendarDates(ApplyCalendar(<<>>, calendar), calendar_dates)

\* GTFSFeed.get_service_ids
get_service_ids(date) ==
    IF date \in DOMAIN service_dates
    THEN Returned(SetIter(service_dates[date]))
    ELSE Raised

\* Friday 2 January 1970 to Monday 5 January 1970
CalendarDates == 1..4

\* calendar.txt: no row or one row; the weekday flags monday..sunday are
\* never, Fridays, Fridays and Saturdays, or every day
CalendarFiles ==
    {<<>>} \cup
    {<<[service_id |-> s, start_date |-> a, end_date |-> b,
        weekdays |-> w]>> :
        s \in Services, a \in {1, 2}, b \in {1, 3},
        w \in {<<0, 0, 0, 0, 0, 0, 0>>, <<0, 0, 0, 0, 1, 0, 0>>,
               <<0, 0, 0, 0, 1, 1, 0>>, <<1, 1, 1, 1, 1, 1, 1>>}}

\* calendar_dates.txt: up to MaxRows rows
CalendarDatesFiles ==
    UNION {[1..n -> [date : {1, 2}, service_id : Services,
                     exception_type : {1, 2}]] : n \in 0..MaxRows}

\* the feed after GTFSFeed.__init__ on a zip with the two calendar files
InitCalendar ==
    /\ \E calendar \in CalendarFiles, calendar_dates \in CalendarDatesFiles :
          /\ Built(OneTrip, _expand_service_dates(calendar, calendar_dates))
          /\ result = [op |-> "ingest", calendar |-> calendar,
                       calendar_dates |-> calendar_dates]
    /\ NoStreet
    /\ NoRaster
    /\ NoConnector

\* a caller asks for the services of a date
GetServiceIds ==
    /\ \E date \in CalendarDates :
          result' = [op |-> "get_service_ids",
                     calendar |-> result.calendar,
                     calendar_dates |-> result.calendar_dates,
                     date |-> date]
                    @@ get_service_ids(date)
    /\ UNCHANGED <<feed, street, raster, connector>>

SpecCalendar == InitCalendar /\ [][GetServiceIds]_vars

\* the weekly rule: some row of the calendar has date within its range and
\* the flag of the date's weekday set
WeeklyRule(calendar, s, date) ==
    \E i \in 1..Len(calendar) :
        /\ calendar[i].service_id = s
        /\ calendar[i].start_date <= date
        /\ date <= calendar[i].end_date
        /\ calendar[i].weekdays[((date + 3) % 7) + 1] = 1

\* whether s is present on date after the weekly rule and then the rows
\* 1..n of calendar_dates, in file order
RECURSIVE PresentAfter(_, _, _, _, _)
PresentAfter(calendar, calendar_dates, n, s, date) ==
    IF n = 0 THEN WeeklyRule(calendar, s, date)
    ELSE IF calendar_dates[n].date = date /\ calendar_dates[n].service_id = s
    THEN calendar_dates[n].exception_type = 1
    ELSE PresentAfter(calendar, calendar_dates, n - 1, s, date)

\* the file without its row i
WithoutRow(rows, i) ==
    SubSeq(rows, 1, i - 1) \o SubSeq(rows, i + 1, Len(rows))

\* row i of calendar_dates removes a service that is not active on the
\* row's date when the row is reached
IsMissingRemove(calendar, calendar_dates, i) ==
    /\ calendar_dates[i].exception_type = 2
    /\ ~PresentAfter(calendar, calendar_dates, i - 1,
                     calendar_dates[i].service_id, calendar_dates[i].date)

\* the set of services of a date after ingest (none for a date without entry)
ServicesOn(date) ==
    IF date \in DOMAIN service_dates THEN service_dates[date] ELSE {}

\* C22 (first part): after ingest s is in the set of date d exactly when
\* the weekly rule followed by the calendar_dates rows in file order
\* leaves it present
C22_MembershipAsDescribed ==
    \A date \in CalendarDates, s \in Services :
        s \in ServicesOn(date)
            <=> PresentAfter(result.calendar, result.calendar_dates,
                             Len(result.calendar_dates), s, date)

\* C22: membership is as described, and a type-2 row for a service that is
\* not active on its date changes nothing: the calendar of the feed is the
\* one ingested from the file without that row
C22_CalendarExpansion ==
    /\ C22_MembershipAsDescribed
    /\ \A i \in 1..Len(result.calendar_dates) :
          IsMissingRemove(result.calendar, result.calendar_dates, i) =>
             service_dates =
                _expand_service_dates(result.calendar,
                    WithoutRow(result.calendar_dates, i))

\* a type-2 row for a service that was not active on its date was ingested
C22_Witness ==
    \E i \in 1..Len(result.calendar_dates) :
        /\ IsMissingRemove(result.calendar, result.calendar_dates, i)
        /\ result.op = "get_service_ids"
        /\ result.date = result.calendar_dates[i].date

\* C23: for every node index i of a way, adj_vertex_node returns an index
\* (never nothing): the smallest vertex-node index at or after i when
\* searching forward, the largest at or before i when searching in
\* reverse, and i itself when i is a vertex node
C23_AdjVertexNode ==
    result.op = "adj_vertex_node" =>
        /\ result.ret # None
        /\ result.ret[1] =
              (IF result.search_forward
               THEN NextVertexIndex(result.way_id, result.node_index)
               ELSE PrevVertexIndex(result.way_id, result.node_index))
        /\ IsVertexNode(result.way_id, result.node_index) =>
              result.ret[1] = result.node_index

\* the search started at a node that is not a vertex node, in a network
\* where another node of the way is one because two ways meet there
C23_Witness ==
    /\ result.op = "adj_vertex_node"
    /\ ~IsVertexNode(result.way_id, result.node_index)
    /\ \E j \in 1..(Len(ways[result.way_id].nds) - 2) :
          IsVertexNode(result.way_id, j)

\* the pattern ids of the timetables that hold trip i
TripPatternIds(i) ==
    {key[1] : key \in {k \in DOMAIN timetables :
                          trips[i].trip_id \in Range(timetables[k].trip_ids)}}

\* the distinct ordered stop tuples of the trips of the feed
StopTuples == {trips[i].stop_id : i \in 1..Len(trips)}

\* C24: every trip has one pattern id and two trips have the same one
\* exactly when their ordered stop tuples are identical; the pattern ids
\* are 0..N-1 for the N distinct tuples; stop_pattern_ids of a stop is the
\* set of the pattern ids whose tuple contains it (a stop in no pattern has
\* no entry); and every timetable keyed on pattern p has as many columns as
\* stop_patterns[p] has stops
C24_StopPatternGrouping ==
    /\ LET grouped == {<<trips[i].stop_id, TripPatternIds(i)>> :
                          i \in 1..Len(trips)}
       IN \A a, b \in grouped :
             /\ Cardinality(a[2]) = 1
             /\ (a[2] = b[2]) <=> (a[1] = b[1])
             /\ \A p \in a[2] : stop_patterns[p] = a[1]
    /\ DOMAIN stop_patterns = 0..(Cardinality(StopTuples) - 1)
    /\ {stop_patterns[p] : p \in DOMAIN stop_patterns} = StopTuples
    /\ \A s \in Stops :
          (IF s \in DOMAIN stop_pattern_ids THEN stop_pattern_ids[s] ELSE {})
             = {p \in DOMAIN stop_patterns : s \in Range(stop_patterns[p])}
    /\ \A key \in DOMAIN timetables :
          /\ Len(timetables[key].stop_ids) = Len(stop_patterns[key[1]])
          /\ \A r \in 1..Len(timetables[key].trip_ids) :
                /\ Len(timetables[key].arrival_times[r])
                      = Len(stop_patterns[key[1]])
                /\ Len(timetables[key].departure_times[r])
                      = Len(stop_patterns[key[1]])

\* a feed of two trips with different stop tuples that share a stop, and
\* so with two pattern ids
C24_Witness ==
    /\ Len(trips) = 2
    /\ trips[1].stop_id # trips[2].stop_id
    /\ TripPatternIds(1) # TripPatternIds(2)
    /\ "A" \in DOMAIN stop_pattern_ids
    /\ Cardinality(stop_pattern_ids["A"]) = 2

-----------------------------------------------------------------------------
(* TransitStreetConnectionEdgeProvider, and the three providers together    *)

\* stops.txt as GTFSFeed.get_stop_locations returns it, in grid units: "A"
\* lies one unit south of node 2, "B" one unit south of the middle of the
\* segment from node 3 to node 4, and "C" far from every street
StopLocations ==
    [s \in Stops |->
        [lon |-> IF s = "A" THEN 1 ELSE IF s = "B" THEN 3 ELSE 40,
         lat |-> IF s = "C" THEN 40 ELSE -1]]

\* search_radius = 0.001 degrees, about 111 meters, in grid units
search_radius == 18

\* _generate_way_segments: a SegmentRef(way_id, segment_index) for every
\* pair of adjacent nodes of every way
Segments ==
    UNION {{<<w, k - 1>> : k \in 1..(Len(ways[w].nds) - 1)} : w \in DOMAIN ways}

\* for the segment from pt1 to pt2 and the point (lon, lat): the normalized
\* offset of the closest point of the segment, as offset_int, and the square
\* of the distance to it, as the fraction num / den
Locate(segment_ref, lon, lat) ==
    LET nds == ways[segment_ref[1]].nds
        pt1 == nodes[nds[segment_ref[2] + 1]]
        pt2 == nodes[nds[segment_ref[2] + 2]]
        dx == pt2.lon - pt1.lon
        dy == pt2.lat - pt1.lat
        len2 == dx * dx + dy * dy
        u == (lon - pt1.lon) * dx + (lat - pt1.lat) * dy
        d1 == (lon - pt1.lon) * (lon - pt1.lon)
                 + (lat - pt1.lat) * (lat - pt1.lat)
        d2 == (lon - pt2.lon) * (lon - pt2.lon)
                 + (lat - pt2.lat) * (lat - pt2.lat)
    IN IF u <= 0 THEN [offset_int |-> 0, num |-> d1, den |-> 1]
       ELSE IF u >= len2 THEN [offset_int |-> 100000, num |-> d2, den |-> 1]
       ELSE [offset_int |-> (u * 100000) \div len2,
             num |-> d1 * len2 - u * u, den |-> len2]

\* segment_spatial_index.query(search_area): the segments whose bounding
\* box meets the bounding box of the search area
QueryResult(lon, lat) ==
    {sr \in Segments :
        LET nds == ways[sr[1]].nds
            pt1 == nodes[nds[sr[2] + 1]]
            pt2 == nodes[nds[sr[2] + 2]]
        IN /\ \E pt \in {pt1, pt2} : pt.lon <= lon + search_radius
           /\ \E pt \in {pt1, pt2} : pt.lon >= lon - search_radius
           /\ \E pt \in {pt1, pt2} : pt.lat <= lat + search_radius
           /\ \E pt \in {pt1, pt2} : pt.lat >= lat - search_radius}

\* StreetData.get_nearest_segment: the set of the MidSegmentRefs it may
\* return, empty when it returns None; np.argmin takes the first of the
\* closest segments in the order of the query result, an order that the
\* spatial index does not promise
get_nearest_segment(lon, lat) ==
    LET candidates == QueryResult(lon, lat)
        located == {<<sr, Locate(sr, lon, lat)>> : sr \in candidates}
        closest == {c \in located :
                       \A other \in located :
                          c[2].num * other[2].den <= other[2].num * c[2].den}
    IN {MidSegmentRef(c[1][1], c[1][2], c[2].offset_int) : c \in closest}

\* _find_links, as the dicts dict(links) it can lead to: every stop with a
\* nearest segment is linked to it
_find_links ==
    LET near(s) == get_nearest_segment(StopLocations[s].lon,
                                       StopLocations[s].lat)
        linked == {s \in Stops : near(s) # {}}
    IN {links \in [linked -> UNION {near(s) : s \in linked}] :
           \A s \in linked : links[s] \in near(s)}

\* the start node of the segment alone
SegmentNodes_StartOnly(midseg_ref) ==
    {ways[midseg_ref.way_id].nds[midseg_ref.segment_index + 1]}

\* seg_start_node and seg_end_node of the segment of a MidSegmentRef
SegmentNodes(midseg_ref) ==
    {ways[midseg_ref.way_id].nds[midseg_ref.segment_index + 1],
     ways[midseg_ref.way_id].nds[midseg_ref.segment_index + 2]}

\* TransitStreetConnectionEdgeProvider.__init__ for the given links
ConnectorBuilt(links) ==
    LET refs == {links[s] : s \in DOMAIN links}
    IN /\ stop_to_midseg_ref = links
       /\ midseg_ref_to_stops =
             [m \in refs |-> {s \in DOMAIN links : links[s] = m}]
       /\ segment_ref_to_midseg_refs =
             [sr \in {<<m.way_id, m.segment_index>> : m \in refs} |->
                 {m \in refs : <<m.way_id, m.segment_index>> = sr}]
       /\ node_to_midseg_refs =
             [n \in UNION {SegmentNodes(m) : m \in refs} |->
                 {m \in refs : n \in SegmentNodes(m)}]

\* the edge to Midstreet(midseg_ref, time + dt) from a point given in half
\* grid units
EdgeToMidstreet(midseg_ref, point, time) ==
    LET distance == geodesic_distance(get_way_point(midseg_ref), point) \div 2
        dt == WalkSeconds(distance)
    IN Edge(MidstreetVertex(midseg_ref, time + dt), dt * WALKING_RELUCTANCE)

\* TransitStreetConnectionEdgeProvider._outgoing_at_stop_vertex
Connection_outgoing_at_stop_vertex(vertex) ==
    IF vertex.stop_id \notin DOMAIN stop_to_midseg_ref
    THEN Returned(<<>>)
    ELSE Returned(<<EdgeToMidstreet(stop_to_midseg_ref[vertex.stop_id],
                                   Halves(StopLocations[vertex.stop_id]),
                                   vertex.time)>>)

\* TransitStreetConnectionEdgeProvider._outgoing_street_node_vertex: what it
\* may return, the set of a node being iterated in some order;
\* street_data.nodes[node_id] raises KeyError for a node of no way
Connection_outgoing_street_node_vertex(vertex) ==
    IF vertex.node_id \notin DOMAIN nodes
    THEN {Raised}
    ELSE {Returned([i \in 1..Len(o) |->
                       EdgeToMidstreet(o[i], Halves(nodes[vertex.node_id]),
                                      vertex.time)]) :
             o \in Orders(DefaultDictGet(node_to_midseg_refs,
                                         vertex.node_id))}

\* a connector whose Midstreet vertices lead to the stops snapped there
ConnectionOutgoing_MidstreetToStops(vertex) ==
    IF vertex.kind = "StreetNode"
    THEN Connection_outgoing_street_node_vertex(vertex)
    ELSE IF vertex.kind = "AtStop"
    THEN {Connection_outgoing_at_stop_vertex(vertex)}
    ELSE IF vertex.kind = "Midstreet"
    THEN {Returned([i \in 1..Len(o) |->
                       Edge(AtStopVertex(o[i], TRUE, vertex.time), 0)]) :
             o \in Orders(DefaultDictGet(midseg_ref_to_stops,
                                         vertex.midseg_ref))}
    ELSE {Returned(<<>>)}

\* TransitStreetConnectionEdgeProvider.outgoing: what it may return
ConnectionOutgoing(vertex) ==
    IF vertex.kind = "StreetNode"
    THEN Connection_outgoing_street_node_vertex(vertex)
    ELSE IF vertex.kind = "AtStop"
    THEN {Connection_outgoing_at_stop_vertex(vertex)}
    ELSE {Returned(<<>>)}

\* StreetEdgeProvider._outgoing_on_earth_surface_vertex: what it may return
_outgoing_on_earth_surface_vertex(node) ==
    IF get_nearest_segment(node.lon, node.lat) = {}
    THEN {Returned(<<>>)}
    ELSE {Returned(<<EdgeToMidstreet(midseg_ref, Halves(node), node.time)>>) :
             midseg_ref \in get_nearest_segment(node.lon, node.lat)}

\* StreetEdgeProvider.outgoing: what it may return
StreetOutgoing(vertex) ==
    IF vertex.kind = "OnEarthSurface"
    THEN _outgoing_on_earth_surface_vertex(vertex)
    ELSE IF vertex.kind = "Midstreet"
    THEN {_outgoing_midstreet_vertex(vertex)}
    ELSE IF vertex.kind = "StreetNode"
    THEN {Returned(StreetNodeEdges(o, vertex.time)) :
             o \in Orders(NodeRefsAfterLookup(vertex.node_id)[vertex.node_id])}
    ELSE {Returned(<<>>)}

\* the street networks beside the feed: one or two untagged ways
ConnectorWays ==
    UNION {[1..n -> [nds : WayNds, tags : {NoTags}]] : n \in 1..MaxWays}

\* the state after GTFSFeed, StreetData and the connector are constructed
InitConnector ==
    /\ Built(OneTrip, [d \in Dates |-> Services])
    /\ ways \in ConnectorWays
    /\ nodes = [nd \in UNION {Range(ways[w].nds) : w \in DOMAIN ways} |->
                   NodeCoordinates[nd]]
    /\ node_refs = NodeReferences(ways)
    /\ way_vertex_nodes = WayVertexNodes(ways, node_refs)
    /\ NoRaster
    /\ \E links \in _find_links : ConnectorBuilt(links)
    /\ result = Idle

\* the driver asks each of the three providers for the outgoing edges of v;
\* the connector's read of self.node_to_midseg_refs[node_id], a
\* defaultdict, inserts a missing key
ExpandAll(v, start, hops) ==
    /\ \E street_ret \in StreetOutgoing(v),
          connection_ret \in ConnectionOutgoing(v) :
          result' = [op |-> "expand", vertex |-> v, start |-> start,
                     hops |-> hops, transit |-> TransitOutgoing(v),
                     street |-> street_ret, connection |-> connection_ret]
    /\ node_refs' = IF v.kind = "StreetNode"
                    THEN NodeRefsAfterLookup(v.node_id) ELSE node_refs
    /\ node_to_midseg_refs' =
          IF v.kind = "StreetNode" /\ v.node_id \in DOMAIN nodes
          THEN DefaultDictWith(node_to_midseg_refs, v.node_id,
                   DefaultDictGet(node_to_midseg_refs, v.node_id))
          ELSE node_to_midseg_refs
    /\ UNCHANGED <<feed, nodes, ways, way_vertex_nodes, raster,
                   stop_to_midseg_ref, midseg_ref_to_stops,
                   segment_ref_to_midseg_refs>>

\* the vertices a traversal starts from, at 00:00 of date 1: every stop,
\* every node id up to 7 (no way uses node 7), the places of the stops as
\* points on the earth, and the linked points of the streets
StartVertices ==
    LET time == Timestamp(1, 0)
    IN {AtStopVertex(s, np, time) : s \in Stops, np \in BOOLEAN}
       \cup {StreetNodeVertex(n, time) : n \in 1..7}
       \cup {OnEarthSurfaceVertex(StopLocations[s].lon,
                                  StopLocations[s].lat, time) : s \in Stops}
       \cup {MidstreetVertex(m, time) : m \in DOMAIN midseg_ref_to_stops}

StartTraversal ==
    /\ result = Idle
    /\ \E v \in StartVertices : ExpandAll(v, v, 0)

\* the driver follows an edge that one of the providers returned
FollowEdge ==
    /\ result.op = "expand"
    /\ result.hops < MaxHops + 1
    /\ \E ret \in {result.transit, result.street, result.connection} :
          /\ ~ret.raised
          /\ \E i \in 1..Len(ret.edges) :
                ExpandAll(ret.edges[i].vertex, result.start, result.hops + 1)

SpecConnector == InitConnector /\ [][StartTraversal \/ FollowEdge]_vars

\* the mid-segment references the stops snapped to
Snaps == {stop_to_midseg_ref[s] : s \in DOMAIN stop_to_midseg_ref}

\* node n is an end of the segment that midseg_ref lies on
IsEndpoint(n, midseg_ref) ==
    \/ n = ways[midseg_ref.way_id].nds[midseg_ref.segment_index + 1]
    \/ n = ways[midseg_ref.way_id].nds[midseg_ref.segment_index + 2]

\* the set of a key of one of the connector's indices, empty without entry
IndexGet(index, key) == IF key \in DOMAIN index THEN index[key] ELSE {}

\* the MidSegmentRefs of the Midstreet targets of a list of edges
MidstreetTargets(edges) ==
    {edges[i].vertex.midseg_ref :
        i \in {j \in 1..Len(edges) : edges[j].vertex.kind = "Midstreet"}}

\* C25: the stops with an entry in stop_to_midseg_ref are those with a
\* nearest segment; for every such stop s, snapped to m on segment (way, k),
\* m is in node_to_midseg_refs of nds[k] and of nds[k+1], s is in
\* midseg_ref_to_stops[m] and m is in segment_ref_to_midseg_refs[(way, k)];
\* the connector's edges of StreetNode(n, t) lead to exactly the Midstreet
\* vertices of the snaps whose segment has n as an end; and its edges of
\* AtStop(s, t) are one edge to Midstreet(snap(s), .) when s snapped and
\* none when it did not
C25_ConnectorIndexConsistency ==
    /\ DOMAIN stop_to_midseg_ref
          = {s \in Stops : get_nearest_segment(StopLocations[s].lon,
                                               StopLocations[s].lat) # {}}
    /\ \A s \in DOMAIN stop_to_midseg_ref :
          LET m == stop_to_midseg_ref[s]
              nds == ways[m.way_id].nds
          IN /\ m \in IndexGet(node_to_midseg_refs, nds[m.segment_index + 1])
             /\ m \in IndexGet(node_to_midseg_refs, nds[m.segment_index + 2])
             /\ s \in IndexGet(midseg_ref_to_stops, m)
             /\ m \in IndexGet(segment_ref_to_midseg_refs,
                               <<m.way_id, m.segment_index>>)
    /\ (result.op = "expand" /\ result.vertex.kind = "StreetNode") =>
          /\ MidstreetTargets(result.connection.edges)
                = {m \in Snaps : IsEndpoint(result.vertex.node_id, m)}
          /\ \A i \in 1..Len(result.connection.edges) :
                result.connection.edges[i].vertex.kind = "Midstreet"
    /\ (result.op = "expand" /\ result.vertex.kind = "AtStop") =>
          /\ ~result.connection.raised
          /\ IF result.vertex.stop_id \in DOMAIN stop_to_midseg_ref
             THEN /\ Len(result.connection.edges) = 1
                  /\ result.connection.edges[1].vertex.kind = "Midstreet"
                  /\ result.connection.edges[1].vertex.midseg_ref
                        = stop_to_midseg_ref[result.vertex.stop_id]
             ELSE result.connection.edges = <<>>

\* the connector was asked for the edges of a street node that is an end of
\* the segment of a snap, with stop "C" beyond reach of every street
C25_Witness ==
    /\ result.op = "expand"
    /\ result.vertex.kind = "StreetNode"
    /\ result.vertex.node_id \in DOMAIN nodes
    /\ \E m \in Snaps : IsEndpoint(result.vertex.node_id, m)
    /\ Len(result.connection.edges) >= 1
    /\ "C" \notin DOMAIN stop_to_midseg_ref
    /\ "A" \in DOMAIN stop_to_midseg_ref

StreetKinds == {"OnEarthSurface", "Midstreet", "StreetNode"}

\* C26: in a traversal that started from an OnEarthSurface, Midstreet or
\* StreetNode vertex, following the edges of the three providers, every
\* vertex reached and every target of an edge returned for it is again one
\* of these three kinds: no AtStop, Departure or Arrival vertex is reached
C26_NoReturnToTransit ==
    (result.op = "expand" /\ result.start.kind \in StreetKinds) =>
        /\ result.vertex.kind \in StreetKinds
        /\ \A ret \in {result.transit, result.street, result.connection} :
              \A i \in 1..Len(ret.edges) :
                 ret.edges[i].vertex.kind \in StreetKinds
        /\ result.transit.edges = <<>>

\* two edges after a start on the earth's surface the traversal is at a
\* street node where the connector offers the way to a stop's snap
C26_Witness ==
    /\ result.op = "expand"
    /\ result.start.kind = "OnEarthSurface"
    /\ result.hops = 2
    /\ result.vertex.kind = "StreetNode"
    /\ Len(result.connection.edges) >= 1
    /\ Len(result.street.edges) >= 1

\* C27: a find_stop_events call consults one service date: every event it
\* returns comes from a timetable of a service active on that date and is
\* stamped midnight of that date plus its timetable seconds; when the
\* query is shifted (query seconds + 86400 < day_end) the date is the one
\* before the query's, so departures that the query's own date offers
\* later than the query time are not returned
C27_OneServiceDatePerLookup ==
    (IsFindStopEvents /\ ~result.raised) =>
        /\ QueryDate = (IF AskedSeconds + 86400 < day_end
                        THEN AskedDate - 1 ELSE AskedDate)
        /\ \A i \in 1..Len(result.events) :
              /\ result.events[i].service_id \in service_dates[QueryDate]
              /\ result.events[i].datetime
                    = Timestamp(QueryDate, EventSeconds(result.events[i]))

\* a shifted departure query returned an event of the previous date while
\* a service that runs on the query's date alone leaves the stop at or
\* after the query time
C27_Witness ==
    /\ IsFindStopEvents
    /\ ~result.raised
    /\ result.find_departures
    /\ AskedSeconds + 86400 < day_end
    /\ result.events # <<>>
    /\ AskedDate \in DOMAIN service_dates
    /\ \E key \in DOMAIN timetables :
          /\ key[2] \in service_dates[AskedDate]
          /\ key[2] \notin service_dates[AskedDate - 1]
          /\ \E c \in 1..(Len(timetables[key].stop_ids) - 1) :
                /\ timetables[key].stop_ids[c] = result.stop_id
                /\ \E r \in 1..Len(timetables[key].departure_times) :
                      timetables[key].departure_times[r][c] >= AskedSeconds
          /\ \A i \in 1..Len(result.events) :
                result.events[i].service_id # key[2]

\* the timetable seconds of a Departure or Arrival vertex: the departure or
\* the arrival time of its row and column
VertexSeconds(v) ==
    LET tt == timetables[<<v.pattern_id, v.service_id>>]
    IN IF v.kind = "Departure"
       THEN tt.departure_times[v.row + 1][v.col + 1]
       ELSE tt.arrival_times[v.row + 1][v.col + 1]

\* C28: every Departure and Arrival vertex reached from an AtStop vertex
\* along the transit edges, and every one an edge returned for such a
\* vertex leads to, is stamped midnight of the service date that the
\* boarding lookup used plus the departure time (Departure) or the arrival
\* time (Arrival) of its row and column
C28_TimestampsFollowTimetable ==
    (result.op = "outgoing") =>
        /\ result.vertex.kind \in {"Departure", "Arrival"} =>
              result.vertex.datetime
                 = Timestamp(result.service_date, VertexSeconds(result.vertex))
        /\ \A i \in 1..Len(result.edges) :
              result.edges[i].vertex.kind \in {"Departure", "Arrival"} =>
                 result.edges[i].vertex.datetime
                    = Timestamp(result.service_date,
                                VertexSeconds(result.edges[i].vertex))

\* an Arrival vertex at the third stop of a trip that was boarded on the
\* service date before the calendar date of the arrival, after a wait at
\* the second stop
C28_Witness ==
    /\ IsOutgoingOf("Arrival")
    /\ result.vertex.col = 2
    /\ result.service_date < DateOf(result.vertex.datetime)
    /\ LET tt == timetables[<<result.vertex.pattern_id,
                              result.vertex.service_id>>]
       IN tt.departure_times[result.vertex.row + 1][2]
             > tt.arrival_times[result.vertex.row + 1][2]

\* the timestamp of a vertex of any kind
VertexTime(v) ==
    IF v.kind \in {"Departure", "Arrival"} THEN v.datetime ELSE v.time

\* the lists of edges that the last call of outgoing returned
ReturnedEdgeLists ==
    IF result.op \in {"outgoing", "street_outgoing", "midstreet_outgoing"}
    THEN {result.edges}
    ELSE IF result.op = "expand"
    THEN {result.transit.edges, result.street.edges, result.connection.edges}
    ELSE {}

\* C29: the target of every edge that outgoing of a provider returns, for a
\* vertex reached from an AtStop or OnEarthSurface start, has a timestamp
\* not earlier than that of the vertex the edge leaves
C29_TimeNeverMovesBackwards ==
    \A edges \in ReturnedEdgeLists :
        \A i \in 1..Len(edges) :
            VertexTime(edges[i].vertex) >= VertexTime(result.vertex)

\* an Arrival vertex of a trip whose timetable lets it leave the stop
\* before it arrives there was expanded
C29_Witness ==
    /\ IsOutgoingOf("Arrival")
    /\ LET tt == timetables[<<result.vertex.pattern_id,
                              result.vertex.service_id>>]
       IN tt.departure_times[result.vertex.row + 1][result.vertex.col + 1]
             < tt.arrival_times[result.vertex.row + 1][result.vertex.col + 1]

====
